---- MODULE Spec2Model ----
(***************************************************************************)
(* Model of the comparison-and-classification pipeline of wheres_waldo:    *)
(* the token-bucket GeminiRateLimiter, the progressive analysis of         *)
(* GeminiIntegrationService, the cache key of CacheService and the         *)
(* visual_compare tool that wires them together.                           *)
(*                                                                         *)
(* Conventions.  Token counts are floats in the code; here they are fixed  *)
(* point, TokenUnit units to one token, so that the default refill rate    *)
(* 15/60 = 0.25 tokens per second is exactly one unit per second.  Time is *)
(* in whole seconds.  Confidences are in hundredths (0.8 is 80).  The code *)
(* runs on one asyncio event loop: the code between two suspension points  *)
(* is one atomic step, and the only suspension point of the modelled code  *)
(* is the wait_for(queue.get()) inside acquire().                          *)
(***************************************************************************)
EXTENDS Integers, Sequences, FiniteSets, TLC

\* ------------------------------------------------------------- bounds --
NProcs == 2
NTasks == 1
MaxCapacity == 2
MaxTicks == 2
ShortTimeout == 2
NPaths == 2
NContents == 2
MaxCompares == 2
MaxInvocations == 2
MaxChanges == 2
MaxTurns == 2

\* ---------------------------------------------------- program constants --
TokenUnit == 4
DefaultTimeout == 300
DefaultTokens == 15 * TokenUnit
DefaultMaxTokens == 15 * TokenUnit
DefaultRefillRate == (15 * TokenUnit) \div 60
DefaultMinConfidence == 80
MinConfidences == {0, DefaultMinConfidence}

Procs == 1..NProcs
Tasks == 1..NTasks
\* The limiter injected into a long-lived service, and the one visual_compare
\* builds for itself.
SharedLimiter == 0
ToolLimiter == 1
LimIds == {SharedLimiter, ToolLimiter}
Capacities == {c * TokenUnit : c \in 1..MaxCapacity}
Rates == {DefaultRefillRate, 2 * DefaultRefillRate}
Timeouts == {ShortTimeout, DefaultTimeout}
TickSteps == {1, DefaultTimeout}
VisionTickSteps == {DefaultTimeout}

Min(a, b) == IF a <= b THEN a ELSE b

VARIABLES
    state,      \* state[l]: the RateLimiterState of limiter l
    touched,    \* the limiters on which acquire() or get_status() has run
    now,        \* time.time(), seconds since the process started
    ticks,      \* number of clock advances so far
    pc,         \* pc[p]: where task p is
    call,       \* call[p]: the frame of p's current or last acquire() call
    granted     \* number of acquire() calls that have returned True

rlVars == <<state, touched, now, ticks, pc, call, granted>>

VARIABLES
    va,         \* va[p]: the frame of p's current or last analyze_changes() call;
                \* reported is the "changes" list of the last reply it met
    running,    \* the task that holds the event loop, 0 when none does
    issued      \* number of external vision calls made so far

visVars == <<va, running, issued>>

\* Image files are 1x1 images: a path is a number (numbers order as the path
\* strings do), a content is the grey level of the pixel in units of GreyStep.
Paths == 1..NPaths
Contents == 1..NContents
\* The content of a file that cv2.imread cannot decode: it returns None.
Unreadable == 0
GreyStep == 3
DefaultPixelThreshold == 2
Thresholds == {DefaultPixelThreshold, DefaultPixelThreshold + 1}
\* The threshold argument of a call: 0 stands for None.
ThresholdArgs == {0} \cup Thresholds
CacheTtl == 24 * 3600
\* Percentages are in hundredths of a percent.
PercentUnit == 100
DefaultMaxChangedPercentage == PercentUnit \div 2
DefaultMaxChangedRegions == 10

\* hash_image_pair: SHA-256 of "<first>|<second>|<threshold>", the two path
\* strings in sorted order.  SHA-256 is taken to be injective, so the digest
\* is the hashed text itself.
hash_image_pair(image1_path, image2_path, threshold) ==
    <<Min(image1_path, image2_path),
      IF image1_path <= image2_path THEN image2_path ELSE image1_path,
      threshold>>

\* CacheService.get_cache_key
get_cache_key(before_path, after_path, threshold) ==
    hash_image_pair(before_path, after_path, threshold)

\* What a lookup finds for a key without an entry, and a call without a result.
Absent == [present |-> FALSE]
None == [none |-> TRUE]

\* A cache tier is the set of its entries, at most one for a key.
Entry(tier, cache_key) ==
    IF \E e \in tier : e.cache_key = cache_key
    THEN CHOOSE e \in tier : e.cache_key = cache_key
    ELSE Absent

Without(tier, cache_key) == {e \in tier : e.cache_key # cache_key}

With(tier, entry) == Without(tier, entry.cache_key) \cup {entry}

VARIABLES
    files,          \* files[path]: the content of the image file at path
    memory_cache,   \* CacheService._memory_cache: the CacheEntry of each key it holds
    disk_cache,     \* the files <cache_dir>/<key>.json: what each of them holds
    hits,           \* CacheService._hits
    misses,         \* CacheService._misses
    storage,        \* the comparisons index of StorageService
    compares,       \* number of compare_and_classify calls made so far
    job,            \* job[p]: the frame of p's current or last compare_and_classify
    config,         \* what ConfigService.get_config() returns
    gemini_service, \* whether ClassificationService.gemini_service is set
    artifacts,      \* the heatmap and report files written under reports/
    direct          \* the last direct call of a method of a service: its
                    \* arguments and what it returned; or a ConversationSession

cacheVars ==
    <<files, memory_cache, disk_cache, hits, misses, storage, compares, job, config,
      gemini_service, artifacts, direct>>

\* AppConfig with the defaults of ComparisonConfig and a Gemini key.
DefaultConfig ==
    [progressive_resolution |-> TRUE, min_confidence_threshold |-> DefaultMinConfidence,
     gemini_api_key |-> TRUE, enable_agentic_vision |-> TRUE,
     max_changed_regions |-> DefaultMaxChangedRegions,
     max_changed_percentage |-> DefaultMaxChangedPercentage]

\* No method of ClassificationService has been called directly.
NoDirect == [kind |-> "none", done |-> TRUE]

NoJob ==
    [stage |-> "idle", before_path |-> 0, after_path |-> 0, threshold |-> 0,
     cache_key |-> <<>>, hit |-> FALSE, seen |-> <<>>, start_time |-> 0,
     use_gemini |-> FALSE, pixel_result |-> None, result |-> None]

\* No comparison has run: both cache tiers and the index are empty.
NothingCompared ==
    /\ memory_cache = {}
    /\ disk_cache = {}
    /\ hits = 0
    /\ misses = 0
    /\ storage = {}
    /\ compares = 0
    /\ job = [p \in Tasks |-> NoJob]
    /\ gemini_service = FALSE
    /\ artifacts = {}
    /\ direct = NoDirect

\* ------------------------------------------------------ GeminiRateLimiter --

\* RateLimiterState as GeminiRateLimiter.__init__ builds it: max_tokens and
\* refill_rate are passed on, tokens keeps the dataclass default of 15.0.
\* queue holds the items put into the asyncio.Queue, getters the tasks
\* suspended in queue.get(), in arrival order.
NewRateLimiter(max_tokens, refill_rate, t) ==
    [tokens |-> DefaultTokens, max_tokens |-> max_tokens,
     refill_rate |-> refill_rate, last_refill |-> t,
     queue |-> <<>>, getters |-> <<>>]

DefaultRateLimiter(t) == NewRateLimiter(DefaultMaxTokens, DefaultRefillRate, t)

RefillTokens_noClamp(s, t) ==
    [s EXCEPT !.tokens = s.tokens + (t - s.last_refill) * s.refill_rate,
              !.last_refill = t]

\* _refill_tokens
RefillTokens(s, t) ==
    [s EXCEPT !.tokens = Min(s.max_tokens,
                             s.tokens + (t - s.last_refill) * s.refill_rate),
              !.last_refill = t]

\* The frame of an acquire() call: the limiter, the timeout and the time of
\* the call while it is suspended, whether it was suspended, and its result.
Frame(l, timeout, start, blocked, ret) ==
    [lim |-> l, timeout |-> timeout, start |-> start, blocked |-> blocked, ret |-> ret]

NoCall == Frame(SharedLimiter, 0, 0, FALSE, FALSE)

Returned(f, ret) == Frame(f.lim, 0, 0, f.blocked, ret)

Remove(seq, x) == SelectSeq(seq, LAMBDA y : y # x)

HasToken_nonNegative(s) == s.tokens >= 0

\* The admission test of acquire(): self.state.tokens >= 1.0
HasToken(s) == s.tokens >= TokenUnit

Refilled(l) == RefillTokens(state[l], now)

\* The synchronous part of acquire() by task p on a limiter in state s0:
\* refill, then take a token and return True, or suspend in
\* wait_for(queue.get(), timeout).
GrantedOn(s0) == HasToken(RefillTokens(s0, now))

AcquireOn_keepsToken(s0, p) ==
    LET s == RefillTokens(s0, now) IN
    IF HasToken(s) THEN s
    ELSE [s EXCEPT !.getters = Append(s.getters, p)]

AcquireOn(s0, p) ==
    LET s == RefillTokens(s0, now) IN
    IF HasToken(s) THEN [s EXCEPT !.tokens = s.tokens - TokenUnit]
    ELSE [s EXCEPT !.getters = Append(s.getters, p)]

FrameOn(l, s0, timeout) ==
    IF GrantedOn(s0) THEN Frame(l, 0, 0, FALSE, TRUE)
    ELSE Frame(l, timeout, now, TRUE, FALSE)

\* The same on limiter l as it is now.
Granted(l) == GrantedOn(state[l])
AcquireBeginState(l, p) == AcquireOn(state[l], p)
AcquireBeginFrame(l, timeout) == FrameOn(l, state[l], timeout)

\* queue.get() has an item for p: the queue is not empty and p is its first getter.
ItemReady(p) ==
    LET s == state[call[p].lim] IN
    s.queue # <<>> /\ s.getters # <<>> /\ Head(s.getters) = p

\* Whether p, suspended in wait_for(queue.get(), timeout), can run again:
\* it has an item, or the timeout has elapsed.
CanResume(p) == ItemReady(p) \/ now >= call[p].start + call[p].timeout

AcquireEndState_decrementOnTimeout(p) ==
    LET s == state[call[p].lim] IN
    [s EXCEPT !.getters = Remove(s.getters, p), !.tokens = s.tokens - TokenUnit]

\* The rest of acquire() once wait_for returns (an item: decrement, True) or
\* raises TimeoutError (False).
AcquireEndState(p) ==
    LET s == state[call[p].lim] IN
    IF ItemReady(p)
    THEN [s EXCEPT !.queue = Tail(s.queue), !.getters = Tail(s.getters),
                   !.tokens = s.tokens - TokenUnit]
    ELSE [s EXCEPT !.getters = Remove(s.getters, p)]

\* get_status(): refills, then reports; the report changes no state.
StatusOf(s) ==
    [tokens_available |-> s.tokens, max_tokens |-> s.max_tokens,
     queue_size |-> Len(s.queue),
     refill_rate_tokens_per_sec |-> s.refill_rate,
     estimated_wait_time_sec |->
         IF Len(s.queue) > 0 THEN (Len(s.queue) * TokenUnit) \div s.refill_rate ELSE 0]

\* ------------------------------------------------- actions of the limiter --

\* A task calls acquire(timeout) on the shared limiter.
Acquire(p, timeout) ==
    /\ pc[p] \in {"idle", "returned"}
    /\ state' = [state EXCEPT ![SharedLimiter] = AcquireBeginState(SharedLimiter, p)]
    /\ call' = [call EXCEPT ![p] = AcquireBeginFrame(SharedLimiter, timeout)]
    /\ pc' = [pc EXCEPT ![p] = IF Granted(SharedLimiter) THEN "returned" ELSE "waiting"]
    /\ granted' = IF Granted(SharedLimiter) THEN granted + 1 ELSE granted
    /\ touched' = touched \cup {SharedLimiter}
    /\ UNCHANGED <<now, ticks, visVars, cacheVars>>

\* A task suspended in acquire() runs again.
AcquireResume(p) ==
    /\ pc[p] = "waiting"
    /\ CanResume(p)
    /\ state' = [state EXCEPT ![call[p].lim] = AcquireEndState(p)]
    /\ call' = [call EXCEPT ![p] = Returned(call[p], ItemReady(p))]
    /\ pc' = [pc EXCEPT ![p] = "returned"]
    /\ granted' = IF ItemReady(p) THEN granted + 1 ELSE granted
    /\ UNCHANGED <<touched, now, ticks, visVars, cacheVars>>

\* A task calls get_status() on the shared limiter.
GetStatus(p) ==
    /\ pc[p] \in {"idle", "returned"}
    /\ state' = [state EXCEPT ![SharedLimiter] = Refilled(SharedLimiter)]
    /\ touched' = touched \cup {SharedLimiter}
    /\ UNCHANGED <<now, ticks, pc, call, granted, visVars, cacheVars>>

\* The clock advances by d seconds.
Tick(d) ==
    /\ ticks < MaxTicks
    /\ now' = now + d
    /\ ticks' = ticks + 1
    /\ UNCHANGED <<state, touched, pc, call, granted, visVars, cacheVars>>

vars == <<rlVars, visVars, cacheVars>>

NoAnalysis ==
    [progressive |-> FALSE, min_confidence |-> 0, tier |-> 0,
     result |-> [success |-> FALSE], calls |-> <<>>, acquired |-> 0, reached |-> 0,
     reported |-> <<>>]

\* One limiter, built with some capacity and rate, shared by NProcs tasks.
Init ==
    /\ \E m \in Capacities, r \in Rates :
           state = [l \in LimIds |->
                       IF l = SharedLimiter THEN NewRateLimiter(m, r, 0)
                       ELSE DefaultRateLimiter(0)]
    /\ touched = {}
    /\ now = 0
    /\ ticks = 0
    /\ pc = [p \in Procs \cup Tasks |-> "idle"]
    /\ call = [p \in Procs \cup Tasks |-> NoCall]
    /\ granted = 0
    /\ va = [p \in Procs \cup Tasks |-> NoAnalysis]
    /\ running = 0
    /\ issued = 0
    /\ files = [path \in Paths |-> 1]
    /\ config = DefaultConfig
    /\ NothingCompared

Next ==
    \/ \E p \in Procs, timeout \in Timeouts : Acquire(p, timeout)
    \/ \E p \in Procs : AcquireResume(p)
    \/ \E p \in Procs : GetStatus(p)
    \/ \E d \in TickSteps : Tick(d)

Spec == Init /\ [][Next]_vars

\* ----------------------------------------------- GeminiIntegrationService --

\* ResolutionLevel, in the order _analyze_progressive walks it.
Resolutions == <<"720p", "1080p", "4K", "8K">>
LOW == 1
MEDIUM == 2
ULTRA == 4

Confidences == {50, 90}

\* dict.get(key, default) and dict[key] = value
DictGet(d, k, default) == IF k \in DOMAIN d THEN d[k] ELSE default
DictSet(d, k, v) == [x \in DOMAIN d \cup {k} |-> IF x = k THEN v ELSE d[x]]

\* ChangeRegion(bbox, description, confidence, intended, severity): intended
\* is "None", "True" or "False", severity is "None" or a value of Severity.
ChangeRegion(bbox, description, confidence, intended, severity) ==
    [bbox |-> bbox, description |-> description, confidence |-> confidence,
     intended |-> intended, severity |-> severity]

\* The text "4PX", as the sequence of its characters.
Text4PX == <<"4", "P", "X">>

\* One entry of the "changes" list of a reply: an unintended change of the
\* given severity.
ChangeData(severity) ==
    [bbox |-> 1, description |-> Text4PX, confidence |-> 90,
     intended |-> "False", severity |-> severity]

\* A reply that is a JSON object with one change.
ObjectReply(kind, overall_confidence, severity) ==
    [kind |-> kind, overall_confidence |-> overall_confidence,
     changes |-> <<ChangeData(severity)>>]

\* What one tier can meet: an image that cv2.imread cannot load, an exception
\* from generate_content, or a reply text.  A reply is a JSON object (bare or
\* inside a ``` fence) with some overall_confidence and one change, a JSON
\* value that is no object, or text that is no JSON.
Replies ==
    {ObjectReply(k, c, "critical") :
        k \in {"object", "fenced_object"}, c \in Confidences}
    \cup {[kind |-> k, overall_confidence |-> 0, changes |-> <<>>] :
        k \in {"array", "text", "api_error", "load_error"}}

\* The ChangeRegion _parse_gemini_response builds from one entry of "changes":
\* it reads bbox, description, confidence and intended, and no severity.
ParseChange(change_data) ==
    ChangeRegion(DictGet(change_data, "bbox", <<>>),
                 DictGet(change_data, "description", <<>>),
                 DictGet(change_data, "confidence", 0),
                 DictGet(change_data, "intended", "None"),
                 "None")

\* _parse_gemini_response: the dict it returns, or raised when an exception
\* other than JSONDecodeError leaves it (data.get on a value that is no dict).
ParseGeminiResponse(reply) ==
    CASE reply.kind \in {"object", "fenced_object"} ->
             [raised |-> FALSE,
              value |-> [success |-> TRUE,
                         changes |-> [i \in DOMAIN reply.changes |->
                                         ParseChange(reply.changes[i])],
                         overall_confidence |-> reply.overall_confidence,
                         summary |-> "summary"]]
      [] reply.kind = "text" ->
             [raised |-> FALSE,
              value |-> [success |-> TRUE, raw_response |-> "text", changes |-> <<>>,
                         overall_confidence |-> 0,
                         summary |-> "Failed to parse structured response"]]
      [] OTHER -> [raised |-> TRUE, value |-> [success |-> FALSE]]

\* Whether the tier gets as far as calling generate_content.
CallsGemini(reply) == reply.kind # "load_error"

\* _analyze_single_resolution at tier t: its result dict, or raised when the
\* ValueError of _load_and_resize leaves it (the load is outside its try).
AnalyzeSingleResolution(t, reply) ==
    LET parsed == ParseGeminiResponse(reply)
        failed == [success |-> FALSE, error |-> reply.kind,
                   resolution_used |-> Resolutions[t]] IN
    CASE reply.kind = "load_error" ->
             [raised |-> TRUE, value |-> [success |-> FALSE, error |-> "load_error"]]
      [] reply.kind = "api_error" -> [raised |-> FALSE, value |-> failed]
      [] parsed.raised -> [raised |-> FALSE, value |-> failed]
      [] OTHER ->
             [raised |-> FALSE,
              value |-> DictSet(DictSet(parsed.value, "resolution_used", Resolutions[t]),
                                "tokens_used", 0)]

\* The test of _analyze_progressive that ends the escalation.
StopsEscalation(result, min_confidence) ==
    DictGet(result, "success", FALSE) /\ DictGet(result, "confidence", 0) >= min_confidence

ProgressiveStep_stopsBeforeUltra(t, result, min_confidence) ==
    IF StopsEscalation(result, min_confidence)
    THEN IF "confidence" \in DOMAIN result THEN "return" ELSE "raise"
    ELSE IF t < ULTRA - 1 THEN "escalate" ELSE "return"

\* What _analyze_progressive does with the result of tier t:
\*   "return"   it returns the result (line 244, or after the last tier),
\*   "raise"    the log line before the return reads result['confidence'],
\*              which the dict does not hold: KeyError,
\*   "escalate" it calls acquire() for the next tier.
ProgressiveStep(t, result, min_confidence) ==
    IF StopsEscalation(result, min_confidence)
    THEN IF "confidence" \in DOMAIN result THEN "return" ELSE "raise"
    ELSE IF t # ULTRA THEN "escalate" ELSE "return"

\* What the step of analyze_changes that runs tier t does next.
TierStep(progressive, t, single, min_confidence) ==
    IF single.raised THEN "raise"
    ELSE IF ~progressive THEN "return"
    ELSE ProgressiveStep(t, single.value, min_confidence)

\* The result analyze_changes hands back when the step ends the call.
FinalResult(progressive, t, single, min_confidence) ==
    LET step == TierStep(progressive, t, single, min_confidence) IN
    CASE step = "raise" /\ single.raised -> single.value
      [] step = "raise" -> [success |-> FALSE, error |-> "KeyError"]
      [] progressive /\ StopsEscalation(single.value, min_confidence) ->
             DictSet(single.value, "resolution_used", Resolutions[t])
      [] progressive ->
             DictSet(DictSet(single.value, "resolution_used", Resolutions[ULTRA]),
                     "note", "Did not reach min confidence")
      [] OTHER -> single.value

LimiterAfterTier_refund(p, step, result) ==
    LET l == call[p].lim IN
    IF step = "escalate" THEN AcquireBeginState(l, p)
    ELSE IF ~DictGet(result, "success", FALSE)
         THEN [state[l] EXCEPT !.tokens = state[l].tokens + TokenUnit]
         ELSE state[l]

\* The limiter after the step that runs one tier: only an escalation touches
\* it, through acquire(); no outcome of the call gives the token back.
LimiterAfterTier(p, step, result) ==
    LET l == call[p].lim IN
    IF step = "escalate" THEN AcquireBeginState(l, p) ELSE state[l]

\* First tier whose reply was a success with overall_confidence at or above
\* min_confidence, 0 while there is none.
Reached(a, single) ==
    IF /\ a.reached = 0
       /\ ~single.raised
       /\ DictGet(single.value, "success", FALSE)
       /\ DictGet(single.value, "overall_confidence", 0) >= a.min_confidence
    THEN a.tier ELSE a.reached

\* analyze_changes on the service whose rate limiter l is in state s0, up to
\* the end of its first acquire().
BeginAnalysisOn(p, l, s0, progressive, min_confidence) ==
    /\ state' = [state EXCEPT ![l] = AcquireOn(s0, p)]
    /\ call' = [call EXCEPT ![p] = FrameOn(l, s0, DefaultTimeout)]
    /\ touched' = touched \cup {l}
    /\ granted' = IF GrantedOn(s0) THEN granted + 1 ELSE granted
    /\ pc' = [pc EXCEPT ![p] = IF GrantedOn(s0) THEN "tier" ELSE "acquiring"]
    /\ running' = IF GrantedOn(s0) THEN p ELSE 0
    /\ va' = [va EXCEPT ![p] =
           [progressive |-> progressive, min_confidence |-> min_confidence,
            tier |-> IF progressive THEN LOW ELSE MEDIUM,
            result |-> [success |-> FALSE], calls |-> <<>>,
            acquired |-> IF GrantedOn(s0) THEN 1 ELSE 0, reached |-> 0,
            reported |-> <<>>]]

BeginAnalysis(p, l, progressive, min_confidence) ==
    BeginAnalysisOn(p, l, state[l], progressive, min_confidence)

\* ---------------------------------------------- actions of the analysis --

\* A task calls analyze_changes on the service that holds the shared limiter.
AnalyzeChanges(p, progressive, min_confidence) ==
    /\ running = 0
    /\ pc[p] = "idle"
    /\ BeginAnalysis(p, SharedLimiter, progressive, min_confidence)
    /\ UNCHANGED <<now, ticks, issued, cacheVars>>

FirstAcquireResume_proceeds(p) ==
    /\ running = 0
    /\ pc[p] = "acquiring"
    /\ CanResume(p)
    /\ state' = [state EXCEPT ![call[p].lim] = AcquireEndState(p)]
    /\ call' = [call EXCEPT ![p] = Returned(call[p], ItemReady(p))]
    /\ granted' = IF ItemReady(p) THEN granted + 1 ELSE granted
    /\ pc' = [pc EXCEPT ![p] = "tier"]
    /\ running' = p
    /\ va' = [va EXCEPT ![p].acquired = IF ItemReady(p) THEN @ + 1 ELSE @]
    /\ UNCHANGED <<touched, now, ticks, issued, cacheVars>>

\* The first acquire() of analyze_changes comes back from its wait: on a
\* timeout the call returns the rate-limit failure with get_status().
FirstAcquireResume(p) ==
    /\ running = 0
    /\ pc[p] = "acquiring"
    /\ CanResume(p)
    /\ state' = [state EXCEPT ![call[p].lim] =
           IF ItemReady(p) THEN AcquireEndState(p)
           ELSE RefillTokens(AcquireEndState(p), now)]
    /\ call' = [call EXCEPT ![p] = Returned(call[p], ItemReady(p))]
    /\ granted' = IF ItemReady(p) THEN granted + 1 ELSE granted
    /\ pc' = [pc EXCEPT ![p] = IF ItemReady(p) THEN "tier" ELSE "done"]
    /\ running' = IF ItemReady(p) THEN p ELSE 0
    /\ va' = [va EXCEPT
           ![p].acquired = IF ItemReady(p) THEN @ + 1 ELSE @,
           ![p].result = IF ItemReady(p) THEN @
                         ELSE [success |-> FALSE, error |-> "Rate limit timeout"]]
    /\ UNCHANGED <<touched, now, ticks, issued, cacheVars>>

\* One tier: _analyze_single_resolution meets `reply`, then the call returns,
\* raises into the handler of analyze_changes, or acquires for the next tier.
AnalyzeTier(p, reply) ==
    /\ running = p
    /\ pc[p] = "tier"
    /\ \E single \in {AnalyzeSingleResolution(va[p].tier, reply)} :
       \E step \in {TierStep(va[p].progressive, va[p].tier, single, va[p].min_confidence)} :
       \E got \in {step = "escalate" /\ Granted(call[p].lim)} :
          LET a == va[p]
              l == call[p].lim
              more == step = "escalate" IN
          /\ state' = [state EXCEPT ![l] = LimiterAfterTier(p, step, single.value)]
          /\ call' = [call EXCEPT ![p] =
                 IF more THEN AcquireBeginFrame(l, DefaultTimeout) ELSE @]
          /\ granted' = IF got THEN granted + 1 ELSE granted
          /\ issued' = IF CallsGemini(reply) THEN issued + 1 ELSE issued
          /\ pc' = [pc EXCEPT ![p] =
                 IF ~more THEN "done" ELSE IF got THEN "tier" ELSE "escalating"]
          /\ running' = IF got THEN p ELSE 0
          /\ va' = [va EXCEPT ![p] =
                 [a EXCEPT
                    !.calls = IF CallsGemini(reply) THEN Append(@, a.tier) ELSE @,
                    !.reached = Reached(a, single),
                    !.reported = reply.changes,
                    !.acquired = IF got THEN @ + 1 ELSE @,
                    !.tier = IF got THEN @ + 1 ELSE @,
                    !.result = IF more THEN single.value
                               ELSE FinalResult(a.progressive, a.tier, single,
                                                a.min_confidence)]]
    /\ UNCHANGED <<touched, now, ticks, cacheVars>>

EscalationResume_proceeds(p) ==
    /\ running = 0
    /\ pc[p] = "escalating"
    /\ CanResume(p)
    /\ state' = [state EXCEPT ![call[p].lim] = AcquireEndState(p)]
    /\ call' = [call EXCEPT ![p] = Returned(call[p], ItemReady(p))]
    /\ granted' = IF ItemReady(p) THEN granted + 1 ELSE granted
    /\ pc' = [pc EXCEPT ![p] = "tier"]
    /\ running' = p
    /\ va' = [va EXCEPT ![p].tier = @ + 1]
    /\ UNCHANGED <<touched, now, ticks, issued, cacheVars>>

\* The acquire() between two tiers comes back from its wait: on a timeout
\* the call returns the rate-limit failure.
EscalationResume(p) ==
    /\ running = 0
    /\ pc[p] = "escalating"
    /\ CanResume(p)
    /\ state' = [state EXCEPT ![call[p].lim] = AcquireEndState(p)]
    /\ call' = [call EXCEPT ![p] = Returned(call[p], ItemReady(p))]
    /\ granted' = IF ItemReady(p) THEN granted + 1 ELSE granted
    /\ pc' = [pc EXCEPT ![p] = IF ItemReady(p) THEN "tier" ELSE "done"]
    /\ running' = IF ItemReady(p) THEN p ELSE 0
    /\ va' = [va EXCEPT
           ![p].acquired = IF ItemReady(p) THEN @ + 1 ELSE @,
           ![p].tier = IF ItemReady(p) THEN @ + 1 ELSE @,
           ![p].result = IF ItemReady(p) THEN @
                         ELSE [success |-> FALSE,
                               error |-> "Rate limit timeout during progressive analysis"]]
    /\ UNCHANGED <<touched, now, ticks, issued, cacheVars>>

\* One service with an injected limiter of some capacity, from which earlier
\* calls have taken k tokens, and on which each of NTasks tasks calls
\* analyze_changes once.
InitVision ==
    /\ \E m \in Capacities, k \in 0..MaxCapacity :
           /\ k * TokenUnit <= m
           /\ state = [l \in LimIds |->
                  IF l = SharedLimiter
                  THEN [NewRateLimiter(m, DefaultRefillRate, 0) EXCEPT
                           !.tokens = m - k * TokenUnit]
                  ELSE DefaultRateLimiter(0)]
           /\ granted = k
    /\ touched = {SharedLimiter}
    /\ now = 0
    /\ ticks = 0
    /\ pc = [p \in Procs \cup Tasks |-> "idle"]
    /\ call = [p \in Procs \cup Tasks |-> NoCall]
    /\ va = [p \in Procs \cup Tasks |-> NoAnalysis]
    /\ running = 0
    /\ issued = 0
    /\ files = [path \in Paths |-> 1]
    /\ config = DefaultConfig
    /\ NothingCompared

NextVision ==
    \/ \E p \in Tasks, progressive \in BOOLEAN, m \in MinConfidences :
           AnalyzeChanges(p, progressive, m)
    \/ \E p \in Tasks : FirstAcquireResume(p)
    \/ \E p \in Tasks, reply \in Replies : AnalyzeTier(p, reply)
    \/ \E p \in Tasks : EscalationResume(p)
    \/ \E d \in VisionTickSteps : Tick(d)

SpecVision == InitVision /\ [][NextVision]_vars

\* The clock advances by the timeout of acquire() while a task waits in it.
WaitTick ==
    /\ \E p \in Tasks : pc[p] \in {"acquiring", "escalating"} /\ ~CanResume(p)
    /\ Tick(DefaultTimeout)

\* One service whose limiter is the default one or a smaller one, from which
\* earlier calls have taken k tokens.
InitProgressive ==
    /\ \E m \in Capacities \cup {DefaultMaxTokens}, k \in 0..MaxCapacity :
           /\ k * TokenUnit <= m
           /\ state = [l \in LimIds |->
                  IF l = SharedLimiter
                  THEN [NewRateLimiter(m, DefaultRefillRate, 0) EXCEPT
                           !.tokens = m - k * TokenUnit]
                  ELSE DefaultRateLimiter(0)]
           /\ granted = k
    /\ touched = {SharedLimiter}
    /\ now = 0
    /\ ticks = 0
    /\ pc = [p \in Procs \cup Tasks |-> "idle"]
    /\ call = [p \in Procs \cup Tasks |-> NoCall]
    /\ va = [p \in Procs \cup Tasks |-> NoAnalysis]
    /\ running = 0
    /\ issued = 0
    /\ files = [path \in Paths |-> 1]
    /\ config = DefaultConfig
    /\ NothingCompared

\* One progressive call of analyze_changes by one task.  The event loop runs
\* a task that can run, and time passes while a task waits.
NextProgressive ==
    \/ \E m \in MinConfidences :
           AnalyzeChanges(CHOOSE p \in Tasks : \A q \in Tasks : p <= q, TRUE, m)
    \/ \E p \in Tasks : FirstAcquireResume(p)
    \/ \E p \in Tasks, reply \in Replies : AnalyzeTier(p, reply)
    \/ \E p \in Tasks : EscalationResume(p)
    \/ WaitTick

SpecProgressive ==
    InitProgressive /\ [][NextProgressive]_vars /\ WF_vars(NextProgressive)

\* ------------------------------------------------------ ComparisonService --

\* threshold or self.config.pixel_threshold
EffectiveThreshold(threshold) ==
    IF threshold = 0 THEN DefaultPixelThreshold ELSE threshold

Abs(x) == IF x >= 0 THEN x ELSE -x

\* ComparisonService.compare on two 1x1 images: cv2.threshold marks the pixel
\* when the absolute difference of the grey levels exceeds the threshold.
\* The ComparisonResult it builds carries passed=False whatever it counted.
compare(before_content, after_content, threshold) ==
    LET diff_gray == Abs(before_content - after_content) * GreyStep
        changed_pixels == IF diff_gray > EffectiveThreshold(threshold) THEN 1 ELSE 0 IN
    [changed_pixels |-> changed_pixels, total_pixels |-> 1,
     changed_percentage |-> changed_pixels * 100 * PercentUnit,
     passed |-> FALSE]

\* ---------------------------------------------------- ClassificationService --

\* str.lower() on the characters the descriptions are written with.
LowerChar(c) ==
    CASE c = "B" -> "b" [] c = "P" -> "p" [] c = "X" -> "x" [] OTHER -> c

Lower(text) == [i \in DOMAIN text |-> LowerChar(text[i])]

\* needle in hay, on strings
In(needle, hay) ==
    \E k \in 0..(Len(hay) - Len(needle)) : SubSeq(hay, k + 1, k + Len(needle)) = needle

\* ExpectedChange(description)
ExpectedChange(description) == [description |-> description]

ChangeMatchesExpected_oneWay(change, expected) ==
    In(Lower(expected.description), Lower(change.description))

\* _change_matches_expected
ChangeMatchesExpected(change, expected) ==
    LET expected_desc == Lower(expected.description)
        change_desc == Lower(change.description) IN
    In(expected_desc, change_desc) \/ In(change_desc, expected_desc)

\* The loop of _classify_changes from the i-th detected change on: a change
\* that matches some expected change gets intended = True and goes to the
\* intended list, any other goes to the unintended list, with intended = False
\* when it was None.
RECURSIVE ClassifyFrom(_, _, _, _, _)
ClassifyFrom(gemini_changes, expected_changes, i, intended, unintended) ==
    IF i > Len(gemini_changes)
    THEN [intended_changes |-> intended, unintended_changes |-> unintended]
    ELSE LET change == gemini_changes[i]
             match_found == \E e \in DOMAIN expected_changes :
                                ChangeMatchesExpected(change, expected_changes[e]) IN
         IF match_found
         THEN ClassifyFrom(gemini_changes, expected_changes, i + 1,
                           Append(intended, [change EXCEPT !.intended = "True"]),
                           unintended)
         ELSE ClassifyFrom(gemini_changes, expected_changes, i + 1, intended,
                           Append(unintended,
                                  [change EXCEPT !.intended =
                                      IF @ = "None" THEN "False" ELSE @]))

\* _classify_changes; expected_changes is <<>> for None and for an empty list.
ClassifyChanges(gemini_changes, expected_changes) ==
    IF gemini_changes = <<>>
    THEN [intended_changes |-> <<>>, unintended_changes |-> <<>>]
    ELSE IF expected_changes = <<>>
    THEN [intended_changes |-> <<>>, unintended_changes |-> gemini_changes]
    ELSE ClassifyFrom(gemini_changes, expected_changes, 1, <<>>, <<>>)

\* sum(1 for c in unintended_changes if c.severity == severity)
CountSeverity(unintended_changes, severity) ==
    Cardinality({i \in DOMAIN unintended_changes :
                    unintended_changes[i].severity = severity})

DeterminePassFail_noPercentage(pixel_result, intended_changes, unintended_changes, cfg) ==
    IF Len(intended_changes) + Len(unintended_changes) > cfg.max_changed_regions
    THEN [passed |-> FALSE, failure_reason |-> "Too many changed regions"]
    ELSE IF CountSeverity(unintended_changes, "critical") > 0
    THEN [passed |-> FALSE, failure_reason |-> "critical unintended change(s) detected"]
    ELSE IF CountSeverity(unintended_changes, "major") > 0
    THEN [passed |-> FALSE, failure_reason |-> "major unintended change(s) detected"]
    ELSE [passed |-> TRUE, failure_reason |-> "None"]

DeterminePassFail_severityFirst(pixel_result, intended_changes, unintended_changes, cfg) ==
    IF Len(intended_changes) + Len(unintended_changes) > cfg.max_changed_regions
    THEN [passed |-> FALSE, failure_reason |-> "Too many changed regions"]
    ELSE IF CountSeverity(unintended_changes, "critical") > 0
    THEN [passed |-> FALSE, failure_reason |-> "critical unintended change(s) detected"]
    ELSE IF pixel_result.changed_percentage > cfg.max_changed_percentage
    THEN [passed |-> FALSE, failure_reason |-> "Too many changed pixels"]
    ELSE IF CountSeverity(unintended_changes, "major") > 0
    THEN [passed |-> FALSE, failure_reason |-> "major unintended change(s) detected"]
    ELSE [passed |-> TRUE, failure_reason |-> "None"]

DeterminePassFail_atLimit(pixel_result, intended_changes, unintended_changes, cfg) ==
    IF Len(intended_changes) + Len(unintended_changes) > cfg.max_changed_regions
    THEN [passed |-> FALSE, failure_reason |-> "Too many changed regions"]
    ELSE IF pixel_result.changed_percentage >= cfg.max_changed_percentage
    THEN [passed |-> FALSE, failure_reason |-> "Too many changed pixels"]
    ELSE IF CountSeverity(unintended_changes, "critical") > 0
    THEN [passed |-> FALSE, failure_reason |-> "critical unintended change(s) detected"]
    ELSE IF CountSeverity(unintended_changes, "major") > 0
    THEN [passed |-> FALSE, failure_reason |-> "major unintended change(s) detected"]
    ELSE [passed |-> TRUE, failure_reason |-> "None"]

\* _determine_pass_fail under the ComparisonConfig cfg.  A failure reason is
\* the message without its numbers.
DeterminePassFail(pixel_result, intended_changes, unintended_changes, cfg) ==
    LET total_changes == Len(intended_changes) + Len(unintended_changes)
        critical_count == CountSeverity(unintended_changes, "critical")
        major_count == CountSeverity(unintended_changes, "major") IN
    IF total_changes > cfg.max_changed_regions
    THEN [passed |-> FALSE, failure_reason |-> "Too many changed regions"]
    ELSE IF pixel_result.changed_percentage > cfg.max_changed_percentage
    THEN [passed |-> FALSE, failure_reason |-> "Too many changed pixels"]
    ELSE IF critical_count > 0
    THEN [passed |-> FALSE, failure_reason |-> "critical unintended change(s) detected"]
    ELSE IF major_count > 0
    THEN [passed |-> FALSE, failure_reason |-> "major unintended change(s) detected"]
    ELSE [passed |-> TRUE, failure_reason |-> "None"]

\* The expected changes of a call made without a baseline.
NoBaseline == <<>>

\* Steps 2 to 7 of compare_and_classify: the ComparisonResult built from the
\* pixel result and the result of the vision analysis ([success |-> FALSE]
\* when there was none).  The frame of a call made with a baseline holds its
\* expected changes.  computed_from is a ghost field: the contents the pixel
\* comparison read.
BuildResult(j, gemini_result) ==
    LET gemini_changes ==
            IF DictGet(gemini_result, "success", FALSE)
            THEN DictGet(gemini_result, "changes", <<>>) ELSE <<>>
        classes == ClassifyChanges(gemini_changes,
                                   DictGet(j, "expected_changes", NoBaseline))
        verdict == DeterminePassFail(j.pixel_result, classes.intended_changes,
                                     classes.unintended_changes, config) IN
    [before_path |-> j.before_path, after_path |-> j.after_path,
     threshold |-> EffectiveThreshold(j.threshold),
     changed_pixels |-> j.pixel_result.changed_pixels,
     total_pixels |-> j.pixel_result.total_pixels,
     changed_percentage |-> j.pixel_result.changed_percentage,
     intended_changes |-> classes.intended_changes,
     unintended_changes |-> classes.unintended_changes,
     passed |-> verdict.passed, failure_reason |-> verdict.failure_reason,
     heatmap_path |-> IF j.pixel_result.changed_pixels > 0 THEN "heatmap" ELSE "None",
     report_path |-> "report",
     timestamp |-> j.start_time,
     computed_from |-> j.seen]

\* create_heatmap and _create_report at time t: the files they have written
\* when the result carries their paths.
Artifacts(result, t) ==
    {[path |-> path, at |-> t] :
        path \in {result.heatmap_path, result.report_path} \ {"None"}}

\* The steps of compare_and_classify that can raise into one of its handlers
\* or into that of put: create_heatmap, _create_report, and open() or
\* json.dump on the cache file.
FaultKinds == {"heatmap", "report", "cache_open", "cache_dump"}

CacheFaults == {"cache_open", "cache_dump"}

\* The files written when the steps in faults raise: a step that raises
\* leaves no file.
ArtifactsWritten(result, t, faults) ==
    {f \in Artifacts(result, t) : f.path \notin faults}

\* StorageService.save_comparison: the index is keyed by the timestamp.
SaveComparison(index, comparison) ==
    {m \in index : m.comparison_id # comparison.timestamp}
    \cup {[comparison_id |-> comparison.timestamp,
           before_path |-> comparison.before_path,
           after_path |-> comparison.after_path,
           threshold |-> comparison.threshold, passed |-> comparison.passed]}

\* ------------------------------------------------------------ CacheService --

\* CacheEntry.to_dict: of an intended change it writes description, bbox and
\* confidence, of an unintended change the severity too; the artifact paths of
\* the result are not written.
to_dict(entry) ==
    LET r == entry.result IN
    [present |-> TRUE, cache_key |-> entry.cache_key, timestamp |-> entry.timestamp,
     result |->
        [before_path |-> r.before_path, after_path |-> r.after_path,
         threshold |-> r.threshold, changed_pixels |-> r.changed_pixels,
         total_pixels |-> r.total_pixels,
         changed_percentage |-> r.changed_percentage,
         intended_changes |->
            [i \in DOMAIN r.intended_changes |->
                [description |-> r.intended_changes[i].description,
                 bbox |-> r.intended_changes[i].bbox,
                 confidence |-> r.intended_changes[i].confidence]],
         unintended_changes |->
            [i \in DOMAIN r.unintended_changes |->
                [description |-> r.unintended_changes[i].description,
                 bbox |-> r.unintended_changes[i].bbox,
                 severity |-> r.unintended_changes[i].severity,
                 confidence |-> r.unintended_changes[i].confidence]],
         passed |-> r.passed, failure_reason |-> r.failure_reason,
         timestamp |-> r.timestamp, computed_from |-> r.computed_from]]

\* CacheEntry.from_dict: the changes are built again from what was written,
\* intended left at its default; the artifact paths come back as None.
from_dict(data) ==
    LET d == data.result IN
    [present |-> TRUE, cache_key |-> data.cache_key, timestamp |-> data.timestamp,
     result |->
        [before_path |-> d.before_path, after_path |-> d.after_path,
         threshold |-> d.threshold, changed_pixels |-> d.changed_pixels,
         total_pixels |-> d.total_pixels,
         changed_percentage |-> d.changed_percentage,
         intended_changes |->
            [i \in DOMAIN d.intended_changes |->
                ChangeRegion(d.intended_changes[i].bbox,
                             d.intended_changes[i].description,
                             d.intended_changes[i].confidence, "None", "None")],
         unintended_changes |->
            [i \in DOMAIN d.unintended_changes |->
                ChangeRegion(d.unintended_changes[i].bbox,
                             d.unintended_changes[i].description,
                             d.unintended_changes[i].confidence, "None",
                             d.unintended_changes[i].severity)],
         passed |-> d.passed, failure_reason |-> d.failure_reason,
         heatmap_path |-> "None", report_path |-> "None",
         timestamp |-> d.timestamp, computed_from |-> d.computed_from]]

Valid_atTtl(entry, t) == t - entry.timestamp <= CacheTtl

\* The validity test of get(): datetime.now() - entry.timestamp < self.cache_ttl
Valid(entry, t) == t - entry.timestamp < CacheTtl

CacheGet_restampsOnHit(memory, disk, cache_key, t) ==
    LET cached == Entry(memory, cache_key)
        data == Entry(disk, cache_key)
        entry == IF cached.present THEN cached ELSE from_dict(data)
        hit == (cached.present \/ data.present) /\ Valid(entry, t)
        restamped == [entry EXCEPT !.timestamp = t] IN
    IF hit
    THEN [hit |-> TRUE, result |-> entry.result,
          memory |-> With(memory, restamped), disk |-> With(disk, to_dict(restamped))]
    ELSE [hit |-> FALSE, result |-> None, memory |-> Without(memory, cache_key),
          disk |-> Without(disk, cache_key)]

\* A cache file that open(cache_file, "w") has truncated and into which the
\* entry has not been written to its end; at is its modification time.
PartialFile(cache_key, at) ==
    [present |-> TRUE, cache_key |-> cache_key, timestamp |-> at, partial |-> TRUE]

Partial(data) == "partial" \in DOMAIN data

\* Whether json.load and from_dict go through on the file: the text of a
\* partial file is no JSON document.
Loads(data) == data.present /\ ~Partial(data)

\* CacheService.get at time t on the two tiers: whether it is a hit, the result
\* it returns, and the tiers it leaves.  A file that does not load is logged
\* and left where it is.
CacheGet(memory, disk, cache_key, t) ==
    LET cached == Entry(memory, cache_key)
        memory_hit == cached.present /\ Valid(cached, t)
        memory1 == IF memory_hit THEN memory ELSE Without(memory, cache_key)
        data == Entry(disk, cache_key)
        entry == from_dict(data)
        disk_hit == Loads(data) /\ Valid(entry, t) IN
    IF memory_hit
    THEN [hit |-> TRUE, result |-> cached.result, memory |-> memory, disk |-> disk]
    ELSE IF disk_hit
    THEN [hit |-> TRUE, result |-> entry.result,
          memory |-> With(memory1, entry), disk |-> disk]
    ELSE [hit |-> FALSE, result |-> None, memory |-> memory1,
          disk |-> IF Loads(data) THEN Without(disk, cache_key) ELSE disk]

CachePut_memoryOnly(memory, disk, cache_key, result, t) ==
    [memory |-> With(memory, [present |-> TRUE, cache_key |-> cache_key,
                              result |-> result, timestamp |-> t]),
     disk |-> disk]

\* CacheService.put at time t.
CachePut(memory, disk, cache_key, result, t) ==
    LET entry == [present |-> TRUE, cache_key |-> cache_key, result |-> result,
                  timestamp |-> t] IN
    [memory |-> With(memory, entry), disk |-> With(disk, to_dict(entry))]

\* CacheService.put at time t when the write of the cache file raises: the
\* entry is in the memory tier by then; when open() raises the directory is as
\* it was, when json.dump raises the file is left truncated.  The exception is
\* logged.
CachePutFailed(memory, disk, cache_key, result, t, faults) ==
    LET entry == [present |-> TRUE, cache_key |-> cache_key, result |-> result,
                  timestamp |-> t] IN
    [memory |-> With(memory, entry),
     disk |-> IF "cache_open" \in faults THEN disk
              ELSE With(disk, PartialFile(cache_key, t))]

\* The memory tier of a CacheService just built.
NoMemory == {}

\* The loading step of ComparisonService.compare: it raises ValueError when
\* cv2.imread returns None for either file.
CanLoad(before_path, after_path) ==
    files[before_path] # Unreadable /\ files[after_path] # Unreadable

\* The frame of a compare_and_classify call after its cache check and, on a
\* miss, the pixel comparison: stage is "raised" when compare raised, and
\* the exception leaves compare_and_classify.
CheckedJob_stripsWithoutVision(before_path, after_path, threshold, use_gemini, got) ==
    [stage |-> IF got.hit THEN "returned"
               ELSE IF CanLoad(before_path, after_path) THEN "computing" ELSE "raised",
     before_path |-> before_path, after_path |-> after_path, threshold |-> threshold,
     cache_key |-> get_cache_key(before_path, after_path, EffectiveThreshold(threshold)),
     hit |-> got.hit, seen |-> <<files[before_path], files[after_path]>>,
     start_time |-> now, use_gemini |-> use_gemini,
     pixel_result |-> IF got.hit \/ ~CanLoad(before_path, after_path) THEN None
                      ELSE compare(files[before_path], files[after_path], threshold),
     result |-> IF got.hit /\ ~use_gemini
                THEN [got.result EXCEPT !.intended_changes = <<>>,
                                        !.unintended_changes = <<>>]
                ELSE got.result]

CheckedJob(before_path, after_path, threshold, use_gemini, got) ==
    [stage |-> IF got.hit THEN "returned"
               ELSE IF CanLoad(before_path, after_path) THEN "computing" ELSE "raised",
     before_path |-> before_path, after_path |-> after_path, threshold |-> threshold,
     cache_key |-> get_cache_key(before_path, after_path, EffectiveThreshold(threshold)),
     hit |-> got.hit, seen |-> <<files[before_path], files[after_path]>>,
     start_time |-> now, use_gemini |-> use_gemini,
     pixel_result |-> IF got.hit \/ ~CanLoad(before_path, after_path) THEN None
                      ELSE compare(files[before_path], files[after_path], threshold),
     result |-> got.result]

\* ------------------------------------------- actions of the comparison --

\* Another process rewrites the image file at path.
WriteImage(path, content) ==
    /\ files[path] # content
    /\ files' = [files EXCEPT ![path] = content]
    /\ UNCHANGED <<rlVars, visVars, memory_cache, disk_cache, hits, misses,
                   storage, compares, job, config, gemini_service, artifacts,
                   direct>>

\* The enable_gemini argument of a call: "None", "True" or "False".
EnableArgs == {"None", "True", "False"}

\* use_gemini = enable_gemini if enable_gemini is not None
\*              else self.config.enable_agentic_vision
UseGemini(enable_gemini) ==
    IF enable_gemini = "None" THEN config.enable_agentic_vision
    ELSE enable_gemini = "True"

\* compare_and_classify on a long-lived ClassificationService, for the calls
\* that do not reach the vision analysis (it is disabled, or the service has
\* no vision service): the whole call is one step.  The calls that reach it
\* are followed from VisualCompare on.  faults are the steps of the call that
\* raise (create_heatmap is called only when pixels changed); the frame of
\* such a call keeps them in the ghost field faults.
CompareAndClassifyWith(p, before_path, after_path, threshold, enable_gemini, faults) ==
    /\ compares < MaxCompares
    /\ ~(UseGemini(enable_gemini) /\ gemini_service)
    /\ \E got \in {CacheGet(memory_cache, disk_cache,
                           get_cache_key(before_path, after_path,
                                         EffectiveThreshold(threshold)), now)} :
       \E j \in {CheckedJob(before_path, after_path, threshold,
                             UseGemini(enable_gemini), got)} :
          IF got.hit
          THEN /\ faults = {}
               /\ job' = [job EXCEPT ![p] = j]
               /\ memory_cache' = got.memory
               /\ disk_cache' = got.disk
               /\ hits' = hits + 1
               /\ UNCHANGED <<misses, storage, artifacts>>
          ELSE IF j.stage = "raised"
          THEN /\ faults = {}
               /\ job' = [job EXCEPT ![p] = j]
               /\ memory_cache' = got.memory
               /\ disk_cache' = got.disk
               /\ misses' = misses + 1
               /\ UNCHANGED <<hits, storage, artifacts>>
          ELSE \E result \in {BuildResult(j, [success |-> FALSE])} :
               \E put \in {IF faults \cap CacheFaults = {}
                            THEN CachePut(got.memory, got.disk, j.cache_key, result, now)
                            ELSE CachePutFailed(got.memory, got.disk, j.cache_key,
                                                result, now, faults)} :
               \E returned \in {[j EXCEPT !.stage = "returned", !.result = result]} :
                  /\ "heatmap" \in faults => j.pixel_result.changed_pixels > 0
                  /\ job' = [job EXCEPT ![p] =
                         IF faults = {} THEN returned
                         ELSE DictSet(returned, "faults", faults)]
                  /\ memory_cache' = put.memory
                  /\ disk_cache' = put.disk
                  /\ misses' = misses + 1
                  /\ artifacts' = artifacts \cup ArtifactsWritten(result, now, faults)
                  /\ storage' = SaveComparison(storage, result)
                  /\ UNCHANGED hits
    /\ compares' = compares + 1
    /\ UNCHANGED <<rlVars, visVars, files, config, gemini_service, direct>>

\* The call in which no step raises.
CompareAndClassify(p, before_path, after_path, threshold, enable_gemini) ==
    CompareAndClassifyWith(p, before_path, after_path, threshold, enable_gemini, {})

\* A service with an empty cache over some image files.
InitKey ==
    /\ state = [l \in LimIds |-> DefaultRateLimiter(0)]
    /\ touched = {}
    /\ now = 0
    /\ ticks = 0
    /\ pc = [p \in Procs \cup Tasks |-> "idle"]
    /\ call = [p \in Procs \cup Tasks |-> NoCall]
    /\ granted = 0
    /\ va = [p \in Procs \cup Tasks |-> NoAnalysis]
    /\ running = 0
    /\ issued = 0
    /\ files \in [Paths -> Contents]
    /\ config = DefaultConfig
    /\ NothingCompared

CacheTickSteps == {CacheTtl}

NextKey ==
    \/ \E path \in Paths, content \in Contents : WriteImage(path, content)
    \/ \E p \in Tasks, b \in Paths, a \in Paths, t \in ThresholdArgs,
          e \in EnableArgs : CompareAndClassify(p, b, a, t, e)
    \/ \E d \in CacheTickSteps : Tick(d)

SpecKey == InitKey /\ [][NextKey]_vars

\* ------------------------------------------------ the cache over time --

\* The calls compare the first image with any image, at the threshold that
\* visual_compare passes by default.
BasePath == CHOOSE p \in Paths : \A q \in Paths : p <= q

CacheThresholdArgs == {DefaultPixelThreshold}

\* The keys of the calls.
CacheKeys ==
    {get_cache_key(BasePath, a, EffectiveThreshold(t)) :
        a \in Paths, t \in CacheThresholdArgs}

CacheGetCall_expiredUncounted(cache_key) ==
    /\ \E got \in {CacheGet(memory_cache, disk_cache, cache_key, now)} :
          /\ memory_cache' = got.memory
          /\ disk_cache' = got.disk
          /\ hits' = IF got.hit THEN hits + 1 ELSE hits
          /\ misses' = IF got.hit \/ Entry(memory_cache, cache_key).present
                                  \/ Entry(disk_cache, cache_key).present
                       THEN misses ELSE misses + 1
          /\ direct' = [kind |-> "get", done |-> TRUE, cache_key |-> cache_key,
                        returned |-> got.result]
    /\ UNCHANGED <<rlVars, visVars, files, storage, compares, job, config,
                   gemini_service, artifacts>>

\* CacheService.get is called with cache_key.
CacheGetCall(cache_key) ==
    /\ \E got \in {CacheGet(memory_cache, disk_cache, cache_key, now)} :
          /\ memory_cache' = got.memory
          /\ disk_cache' = got.disk
          /\ hits' = IF got.hit THEN hits + 1 ELSE hits
          /\ misses' = IF got.hit THEN misses ELSE misses + 1
          /\ direct' = [kind |-> "get", done |-> TRUE, cache_key |-> cache_key,
                        returned |-> got.result]
    /\ UNCHANGED <<rlVars, visVars, files, storage, compares, job, config,
                   gemini_service, artifacts>>

\* A ClassificationService is built anew over the same storage directory, as
\* visual_compare does: its CacheService starts with an empty memory tier and
\* counters at zero, and finds the cache files of the earlier one.
NewCacheService ==
    /\ memory_cache # {} \/ hits + misses > 0
    /\ memory_cache' = {}
    /\ hits' = 0
    /\ misses' = 0
    /\ UNCHANGED <<rlVars, visVars, files, disk_cache, storage, compares, job,
                   config, gemini_service, artifacts, direct>>

\* A service, with or without a vision service and with vision enabled or
\* not in its configuration, over an empty cache directory.
InitCache ==
    /\ state = [l \in LimIds |-> DefaultRateLimiter(0)]
    /\ touched = {}
    /\ now = 0
    /\ ticks = 0
    /\ pc = [p \in Procs \cup Tasks |-> "idle"]
    /\ call = [p \in Procs \cup Tasks |-> NoCall]
    /\ granted = 0
    /\ va = [p \in Procs \cup Tasks |-> NoAnalysis]
    /\ running = 0
    /\ issued = 0
    /\ files = [path \in Paths |-> Min(path, NContents)]
    /\ \E enabled \in BOOLEAN :
           config = [DefaultConfig EXCEPT !.enable_agentic_vision = enabled]
    /\ memory_cache = {}
    /\ disk_cache = {}
    /\ hits = 0
    /\ misses = 0
    /\ storage = {}
    /\ compares = 0
    /\ job = [p \in Tasks |-> NoJob]
    /\ gemini_service \in BOOLEAN
    /\ artifacts = {}
    /\ direct = NoDirect

\* The task that makes the calls.
Caller == CHOOSE p \in Tasks : \A q \in Tasks : p <= q

\* The clock advances to the last second of the current time to live, and
\* from there to its end.
TtlTick == Tick(IF (now + 1) % CacheTtl = 0 THEN 1 ELSE (CacheTtl - 1) - (now % CacheTtl))

\* Calls of compare_and_classify as time passes and services are rebuilt,
\* and after them one direct call of get.
NextCache ==
    \/ /\ direct = NoDirect
       /\ \/ \E a \in Paths, t \in CacheThresholdArgs, e \in EnableArgs :
                 CompareAndClassify(Caller, BasePath, a, t, e)
          \/ NewCacheService
          \/ TtlTick
          \/ \E k \in CacheKeys : CacheGetCall(k)

SpecCache == InitCache /\ [][NextCache]_vars

\* ------------------------------------------- maintenance of the cache --

\* The modification time of a cache file: put writes the file in the instant
\* it stamps the entry.
Mtime(data) == data.timestamp

\* cache_file.stat().st_size, in units of the text of one entry.
EntryBytes == 1

CacheInvalidate_memoryOnly(memory, disk, cache_key) ==
    [memory |-> Without(memory, cache_key), disk |-> disk]

\* CacheService.invalidate: the tiers it leaves.
CacheInvalidate(memory, disk, cache_key) ==
    [memory |-> Without(memory, cache_key), disk |-> Without(disk, cache_key)]

\* CacheService.clear: the tiers it leaves and the dict it returns.
CacheClear(memory, disk) ==
    [memory |-> {}, disk |-> {},
     returned |-> [memory_entries_cleared |-> Cardinality(memory),
                   disk_entries_cleared |-> Cardinality(disk),
                   freed_bytes |-> Cardinality(disk) * EntryBytes]]

\* The test of cleanup_expired on an age: now - mtime > self.cache_ttl
SweptAt(age) == age > CacheTtl

\* CacheService.cleanup_expired at time t: it unlinks the cache files whose
\* modification time is more than the time to live ago and deletes the
\* memory entries whose timestamp is; it returns the number of files.
CleanupExpired(memory, disk, t) ==
    LET expired_files == {d \in disk : SweptAt(t - Mtime(d))}
        expired_keys == {e.cache_key : e \in {m \in memory : SweptAt(t - m.timestamp)}} IN
    [memory |-> {e \in memory : e.cache_key \notin expired_keys},
     disk |-> disk \ expired_files,
     returned |-> [expired_entries_removed |-> Cardinality(expired_files),
                   freed_bytes |-> Cardinality(expired_files) * EntryBytes]]

\* CacheService.invalidate is called with cache_key.
InvalidateCall(cache_key) ==
    /\ \E left \in {CacheInvalidate(memory_cache, disk_cache, cache_key)} :
          /\ memory_cache' = left.memory
          /\ disk_cache' = left.disk
          /\ direct' = [kind |-> "invalidate", done |-> TRUE, cache_key |-> cache_key,
                        returned |-> None]
    /\ UNCHANGED <<rlVars, visVars, files, hits, misses, storage, compares, job,
                   config, gemini_service, artifacts>>

\* CacheService.clear is called.
ClearCall ==
    /\ \E left \in {CacheClear(memory_cache, disk_cache)} :
          /\ memory_cache' = left.memory
          /\ disk_cache' = left.disk
          /\ direct' = [kind |-> "clear", done |-> TRUE, returned |-> left.returned]
    /\ UNCHANGED <<rlVars, visVars, files, hits, misses, storage, compares, job,
                   config, gemini_service, artifacts>>

\* CacheService.cleanup_expired is called.
CleanupExpiredCall ==
    /\ \E left \in {CleanupExpired(memory_cache, disk_cache, now)} :
          /\ memory_cache' = left.memory
          /\ disk_cache' = left.disk
          /\ direct' = [kind |-> "cleanup_expired", done |-> TRUE,
                        returned |-> left.returned]
    /\ UNCHANGED <<rlVars, visVars, files, hits, misses, storage, compares, job,
                   config, gemini_service, artifacts>>

\* A service without a vision service, under the default configuration, over
\* an empty cache directory.
InitSweep ==
    /\ InitCache
    /\ config = DefaultConfig
    /\ ~gemini_service

\* The clock advances by the time to live, and from there second by second.
SweepTick == Tick(IF now = 0 THEN CacheTtl ELSE 1)

\* Calls of compare_and_classify as time passes and services are rebuilt,
\* and after them one call of invalidate, clear or cleanup_expired.
NextSweep ==
    \/ /\ direct = NoDirect
       /\ \/ \E a \in Paths, e \in {"None", "False"} :
                 CompareAndClassify(Caller, BasePath, a, DefaultPixelThreshold, e)
          \/ NewCacheService
          \/ SweepTick
          \/ \E k \in CacheKeys : InvalidateCall(k)
          \/ ClearCall
          \/ CleanupExpiredCall

SpecSweep == InitSweep /\ [][NextSweep]_vars

\* The same, and after them one call of get or of one of the three.
NextStats ==
    \/ NextSweep
    \/ /\ direct = NoDirect
       /\ \E k \in CacheKeys : CacheGetCall(k)

SpecStats == InitSweep /\ [][NextStats]_vars

\* --------------------------------------------- steps that raise --

\* What can raise in one call: any of the steps, the write of the cache file
\* at open() or at json.dump.
Faults == {f \in SUBSET FaultKinds : Cardinality(f \cap CacheFaults) <= 1}

\* Calls of compare_and_classify in which some steps raise, as time passes
\* and services are rebuilt.
NextFaults ==
    \/ \E a \in Paths, f \in Faults :
           CompareAndClassifyWith(Caller, BasePath, a, DefaultPixelThreshold, "False", f)
    \/ NewCacheService
    \/ TtlTick

SpecFaults == InitSweep /\ [][NextFaults]_vars

\* ------------------------------------- two processes, one cache directory --

\* Another process runs compare_and_classify over the same storage directory,
\* with a CacheService of its own, up to the point where its put has opened
\* the cache file: open(cache_file, "w") has truncated the file and json.dump
\* has not written the entry to its end.  direct holds the entry it writes.
OtherPutOpens(before_path, after_path, threshold) ==
    /\ direct = NoDirect
    /\ compares < MaxCompares
    /\ \E got \in {CacheGet(NoMemory, disk_cache,
                           get_cache_key(before_path, after_path,
                                         EffectiveThreshold(threshold)), now)} :
       \E j \in {CheckedJob(before_path, after_path, threshold, FALSE, got)} :
          /\ j.stage = "computing"
          /\ \E result \in {BuildResult(j, [success |-> FALSE])} :
                /\ disk_cache' = With(got.disk, PartialFile(j.cache_key, now))
                /\ artifacts' = artifacts \cup Artifacts(result, now)
                /\ storage' = SaveComparison(storage, result)
                /\ direct' = [kind |-> "put", done |-> FALSE,
                              cache_key |-> j.cache_key,
                              entry |-> [present |-> TRUE, cache_key |-> j.cache_key,
                                         result |-> result, timestamp |-> now]]
    /\ compares' = compares + 1
    /\ UNCHANGED <<rlVars, visVars, files, memory_cache, hits, misses, job, config,
                   gemini_service>>

\* The put of the other process writes the entry to its end and closes the
\* file.
OtherPutCloses ==
    /\ direct.kind = "put"
    /\ ~direct.done
    /\ disk_cache' = With(disk_cache, to_dict(direct.entry))
    /\ direct' = NoDirect
    /\ UNCHANGED <<rlVars, visVars, files, memory_cache, hits, misses, storage,
                   compares, job, config, gemini_service, artifacts>>

\* The calls of this process and the puts of the other one, as time passes.
NextShared ==
    \/ \E a \in Paths :
           CompareAndClassify(Caller, BasePath, a, DefaultPixelThreshold, "False")
    \/ \E a \in Paths : OtherPutOpens(BasePath, a, DefaultPixelThreshold)
    \/ OtherPutCloses
    \/ TtlTick

SpecShared == InitSweep /\ [][NextShared]_vars

\* ------------------- direct calls of the classification and of one tier --

\* The text "button moves right", as the sequence of its characters.
TextButtonMovesRight ==
    <<"b", "u", "t", "t", "o", "n", " ", "m", "o", "v", "e", "s", " ", "r",
      "i", "g", "h", "t">>

\* The text "button moved to the right by 4px"
TextButtonMovedRight ==
    <<"b", "u", "t", "t", "o", "n", " ", "m", "o", "v", "e", "d", " ", "t",
      "o", " ", "t", "h", "e", " ", "r", "i", "g", "h", "t", " ", "b", "y",
      " ", "4", "p", "x">>

\* The text "Button"
TextButton == <<"B", "u", "t", "t", "o", "n">>

Descriptions == {TextButtonMovesRight, TextButtonMovedRight, TextButton, Text4PX}

\* Sequences over S of length at most n.
SeqsUpTo(S, n) == UNION {[1..k -> S] : k \in 0..n}

\* What the detector can hand to _classify_changes: up to MaxChanges changes,
\* the i-th with bbox i, each with some description and some value of
\* intended; severity is never set by the detector.
DetectedChanges ==
    UNION {{[i \in 1..k |-> ChangeRegion(i, d[i], 90, t[i], "None")] :
               d \in [1..k -> Descriptions], t \in [1..k -> {"None", "True", "False"}]} :
           k \in 0..MaxChanges}

\* The expected changes of a baseline.
ExpectedChanges ==
    {[i \in DOMAIN d |-> ExpectedChange(d[i])] :
        d \in SeqsUpTo({TextButtonMovesRight, Text4PX}, MaxChanges)}

\* _classify_changes is called with the lists drawn for the call.
ClassifyChangesCall ==
    /\ direct.kind = "classify"
    /\ ~direct.done
    /\ direct' = [direct EXCEPT
           !.done = TRUE,
           !.returned = ClassifyChanges(direct.gemini_changes, direct.expected_changes)]
    /\ UNCHANGED <<rlVars, visVars, files, memory_cache, disk_cache, hits, misses,
                   storage, compares, job, config, gemini_service, artifacts>>

\* The lists _determine_pass_fail can be handed: changes with the given value
\* of intended and any of the given severities.
SeverityLists(intended, severities) ==
    SeqsUpTo({ChangeRegion(1, Text4PX, 90, intended, severity) :
                 severity \in severities}, MaxChanges)

\* The pixel results and the configurations of a direct call.
PixelResults ==
    {[changed_pixels |-> n, total_pixels |-> 100 * PercentUnit,
      changed_percentage |-> n] : n \in {0, DefaultMaxChangedPercentage,
                                         DefaultMaxChangedPercentage + 1}}

PassFailConfigs ==
    {[DefaultConfig EXCEPT !.max_changed_regions = r, !.max_changed_percentage = m] :
        r \in 0..MaxChanges, m \in {0, DefaultMaxChangedPercentage}}

\* _determine_pass_fail is called with the arguments drawn for the call, on a
\* service configured with cfg.
DeterminePassFailCall ==
    /\ direct.kind = "pass_fail"
    /\ ~direct.done
    /\ direct' = [direct EXCEPT
           !.done = TRUE,
           !.returned = DeterminePassFail(direct.pixel_result, direct.intended_changes,
                                          direct.unintended_changes, direct.cfg)]
    /\ UNCHANGED <<rlVars, visVars, files, memory_cache, disk_cache, hits, misses,
                   storage, compares, job, config, gemini_service, artifacts>>

\* _analyze_single_resolution is called at the tier drawn for the call and
\* meets the reply drawn for it.
AnalyzeSingleResolutionCall ==
    /\ direct.kind = "single"
    /\ ~direct.done
    /\ direct' = [direct EXCEPT
           !.done = TRUE,
           !.returned = AnalyzeSingleResolution(direct.tier, direct.reply)]
    /\ UNCHANGED <<rlVars, visVars, files, memory_cache, disk_cache, hits, misses,
                   storage, compares, job, config, gemini_service, artifacts>>

\* The values ComparisonConfig admits for pixel_threshold (ge=1, le=3).
PixelThresholds == 1..3

\* ComparisonService.compare is called on the two images drawn for the call,
\* and _determine_pass_fail on what it returns, with no classified change and
\* on a service configured with cfg.
CompareCall ==
    /\ direct.kind = "compare"
    /\ ~direct.done
    /\ \E pixel_result \in {compare(direct.before, direct.after, direct.threshold)} :
          direct' = [direct EXCEPT
              !.done = TRUE,
              !.returned = pixel_result,
              !.verdict = DeterminePassFail(pixel_result, <<>>, <<>>, direct.cfg)]
    /\ UNCHANGED <<rlVars, visVars, files, memory_cache, disk_cache, hits, misses,
                   storage, compares, job, config, gemini_service, artifacts>>

\* A service on which one method is about to be called directly, with some
\* arguments.
InitClassify ==
    /\ state = [l \in LimIds |-> DefaultRateLimiter(0)]
    /\ touched = {}
    /\ now = 0
    /\ ticks = 0
    /\ pc = [p \in Procs \cup Tasks |-> "idle"]
    /\ call = [p \in Procs \cup Tasks |-> NoCall]
    /\ granted = 0
    /\ va = [p \in Procs \cup Tasks |-> NoAnalysis]
    /\ running = 0
    /\ issued = 0
    /\ files = [path \in Paths |-> 1]
    /\ config = DefaultConfig
    /\ memory_cache = {}
    /\ disk_cache = {}
    /\ hits = 0
    /\ misses = 0
    /\ storage = {}
    /\ compares = 0
    /\ job = [p \in Tasks |-> NoJob]
    /\ gemini_service = FALSE
    /\ artifacts = {}
    /\ \/ \E g \in DetectedChanges, e \in ExpectedChanges :
              direct = [kind |-> "classify", done |-> FALSE, gemini_changes |-> g,
                        expected_changes |-> e, returned |-> None]
       \/ \E pr \in PixelResults, i \in SeverityLists("True", {"None", "critical"}),
             u \in SeverityLists("False", {"None", "critical", "major", "minor"}),
             cfg \in PassFailConfigs :
              direct = [kind |-> "pass_fail", done |-> FALSE, pixel_result |-> pr,
                        intended_changes |-> i, unintended_changes |-> u,
                        cfg |-> cfg, returned |-> None]
       \/ \E t \in DOMAIN Resolutions, reply \in Replies :
              direct = [kind |-> "single", done |-> FALSE, tier |-> t,
                        reply |-> reply, returned |-> None]
       \/ \E b \in Contents, a \in Contents, t \in PixelThresholds,
             cfg \in PassFailConfigs :
              direct = [kind |-> "compare", done |-> FALSE, before |-> b, after |-> a,
                        threshold |-> t, cfg |-> cfg, returned |-> None,
                        verdict |-> None]

NextClassify ==
    \/ ClassifyChangesCall
    \/ DeterminePassFailCall
    \/ AnalyzeSingleResolutionCall
    \/ CompareCall

SpecClassify == InitClassify /\ [][NextClassify]_vars

\* ------------------------------------------------------------ visual_compare --

\* The visual_compare tool up to the first suspension point or, when there is
\* none, to its return.  It builds a CacheService with an empty memory tier
\* and, when vision is enabled and a key is configured, a GeminiRateLimiter of
\* its own: the acquire() calls of the invocation find 15 tokens and never
\* suspend, so that invocations do not overlap.
VisualCompare(p, before_path, after_path, threshold, enable_gemini) ==
    /\ compares < MaxInvocations
    /\ running = 0
    /\ \A q \in Tasks : job[q].stage # "vision"
    /\ \E got \in {CacheGet(NoMemory, disk_cache,
                           get_cache_key(before_path, after_path,
                                         EffectiveThreshold(threshold)), now)} :
       \E j \in {CheckedJob(before_path, after_path, threshold,
                             enable_gemini /\ config.gemini_api_key, got)} :
          CASE got.hit ->
                 /\ job' = [job EXCEPT ![p] = j]
                 /\ disk_cache' = got.disk
                 /\ UNCHANGED <<storage, artifacts, rlVars, visVars>>
            [] j.stage = "raised" ->
                 /\ job' = [job EXCEPT ![p] = j]
                 /\ disk_cache' = got.disk
                 /\ UNCHANGED <<storage, artifacts, rlVars, visVars>>
            [] j.stage = "computing" /\ ~(enable_gemini /\ config.gemini_api_key) ->
                 \E result \in {BuildResult(j, [success |-> FALSE])} :
                    /\ job' = [job EXCEPT ![p] = [j EXCEPT !.stage = "returned",
                                                           !.result = result]]
                    /\ disk_cache' = CachePut(got.memory, got.disk, j.cache_key,
                                              result, now).disk
                    /\ artifacts' = artifacts \cup Artifacts(result, now)
                    /\ storage' = SaveComparison(storage, result)
                    /\ UNCHANGED <<rlVars, visVars>>
            [] OTHER ->
                 /\ job' = [job EXCEPT ![p] = [j EXCEPT !.stage = "vision"]]
                 /\ disk_cache' = got.disk
                 /\ BeginAnalysisOn(p, ToolLimiter, DefaultRateLimiter(now),
                                    config.progressive_resolution,
                                    config.min_confidence_threshold)
                 /\ UNCHANGED <<storage, artifacts, now, ticks, issued>>
    /\ compares' = compares + 1
    /\ UNCHANGED <<files, memory_cache, hits, misses, config, gemini_service, direct>>

\* The rest of the invocation once analyze_changes has returned: steps 3 to 7
\* of compare_and_classify, save_comparison and the cache put.  The frames of
\* the calls that have returned are dropped.
FinishCompare(p) ==
    /\ job[p].stage = "vision"
    /\ pc[p] = "done"
    /\ \E result \in {BuildResult(job[p], va[p].result)} :
          /\ job' = [job EXCEPT ![p] = [@ EXCEPT !.stage = "returned",
                                                 !.result = result]]
          /\ disk_cache' = CachePut(NoMemory, disk_cache, job[p].cache_key,
                                    result, now).disk
          /\ artifacts' = artifacts \cup Artifacts(result, now)
          /\ storage' = SaveComparison(storage, result)
    /\ pc' = [pc EXCEPT ![p] = "idle"]
    /\ call' = [call EXCEPT ![p] = NoCall]
    /\ va' = [va EXCEPT ![p] = NoAnalysis]
    /\ UNCHANGED <<state, touched, now, ticks, granted, running, issued,
                   files, memory_cache, hits, misses, compares, config,
                   gemini_service, direct>>

\* A process with some configuration, over image files of different contents
\* and an empty cache directory.
InitTool ==
    /\ state = [l \in LimIds |-> DefaultRateLimiter(0)]
    /\ touched = {}
    /\ now = 0
    /\ ticks = 0
    /\ pc = [p \in Procs \cup Tasks |-> "idle"]
    /\ call = [p \in Procs \cup Tasks |-> NoCall]
    /\ granted = 0
    /\ va = [p \in Procs \cup Tasks |-> NoAnalysis]
    /\ running = 0
    /\ issued = 0
    /\ files = [path \in Paths |-> Min(path, NContents)]
    /\ config \in [progressive_resolution : BOOLEAN,
                    min_confidence_threshold : MinConfidences,
                    gemini_api_key : BOOLEAN,
                    enable_agentic_vision : {TRUE},
                    max_changed_regions : {DefaultMaxChangedRegions},
                    max_changed_percentage : {DefaultMaxChangedPercentage}]
    /\ NothingCompared

\* The replies the tiers of an invocation meet.
ToolReplies ==
    {r \in Replies : r.kind \in {"object", "api_error"}}
    \cup {ObjectReply("object", c, "major") : c \in Confidences}

\* The clock advances between two invocations.
TickBetween(d) ==
    /\ \A q \in Tasks : job[q].stage # "vision"
    /\ Tick(d)

NextTool ==
    \/ \E p \in Tasks, b \in Paths, a \in Paths, t \in ThresholdArgs,
          enable_gemini \in BOOLEAN : VisualCompare(p, b, a, t, enable_gemini)
    \/ \E p \in Tasks, reply \in ToolReplies : AnalyzeTier(p, reply)
    \/ \E p \in Tasks : FinishCompare(p)
    \/ \E d \in CacheTickSteps : TickBetween(d)

SpecTool == InitTool /\ [][NextTool]_vars

\* ------------------------------- the pipeline on a long-lived service --

\* compare_and_classify on a ClassificationService that holds a vision
\* service, with vision enabled and with the expected changes of a baseline
\* (NoBaseline without one), up to the first suspension point or, on a cache
\* hit, to its return.  The vision service holds the shared limiter.
CompareWithVisionFor(p, before_path, after_path, threshold, expected_changes) ==
    /\ compares < MaxCompares
    /\ running = 0
    /\ gemini_service
    /\ pc[p] = "idle"
    /\ job[p].stage # "vision"
    /\ \E got \in {CacheGet(memory_cache, disk_cache,
                           get_cache_key(before_path, after_path,
                                         EffectiveThreshold(threshold)), now)} :
       \E checked \in {CheckedJob(before_path, after_path, threshold, TRUE, got)} :
       \E j \in {IF expected_changes = NoBaseline THEN checked
                 ELSE DictSet(checked, "expected_changes", expected_changes)} :
          /\ memory_cache' = got.memory
          /\ disk_cache' = got.disk
          /\ IF got.hit
             THEN /\ job' = [job EXCEPT ![p] = j]
                  /\ hits' = hits + 1
                  /\ UNCHANGED <<misses, rlVars, visVars>>
             ELSE IF j.stage = "raised"
             THEN /\ job' = [job EXCEPT ![p] = j]
                  /\ misses' = misses + 1
                  /\ UNCHANGED <<hits, rlVars, visVars>>
             ELSE /\ job' = [job EXCEPT ![p] = [j EXCEPT !.stage = "vision"]]
                  /\ misses' = misses + 1
                  /\ BeginAnalysis(p, SharedLimiter, config.progressive_resolution,
                                   config.min_confidence_threshold)
                  /\ UNCHANGED <<hits, now, ticks, issued>>
    /\ compares' = compares + 1
    /\ UNCHANGED <<files, storage, config, gemini_service, artifacts, direct>>

\* The call made without a baseline.
CompareWithVision(p, before_path, after_path, threshold) ==
    CompareWithVisionFor(p, before_path, after_path, threshold, NoBaseline)

FinishClassify_dropsFailedVision(p) ==
    /\ job[p].stage = "vision"
    /\ pc[p] = "done"
    /\ \E result \in {BuildResult(job[p], va[p].result)} :
       \E put \in {IF DictGet(va[p].result, "success", FALSE)
                   THEN CachePut(memory_cache, disk_cache, job[p].cache_key, result, now)
                   ELSE [memory |-> memory_cache, disk |-> disk_cache]} :
          /\ job' = [job EXCEPT ![p] = [@ EXCEPT !.stage = "returned",
                                                 !.result = result]]
          /\ memory_cache' = put.memory
          /\ disk_cache' = put.disk
          /\ artifacts' = artifacts \cup Artifacts(result, now)
          /\ storage' = SaveComparison(storage, result)
    /\ pc' = [pc EXCEPT ![p] = "idle"]
    /\ call' = [call EXCEPT ![p] = NoCall]
    /\ va' = [va EXCEPT ![p] = NoAnalysis]
    /\ UNCHANGED <<state, touched, now, ticks, granted, running, issued,
                   files, hits, misses, compares, config, gemini_service, direct>>

\* The rest of the call once analyze_changes has returned: steps 3 to 7 of
\* compare_and_classify, save_comparison and the cache put.
FinishClassify(p) ==
    /\ job[p].stage = "vision"
    /\ pc[p] = "done"
    /\ \E result \in {BuildResult(job[p], va[p].result)} :
       \E put \in {CachePut(memory_cache, disk_cache, job[p].cache_key, result, now)} :
          /\ job' = [job EXCEPT ![p] = [@ EXCEPT !.stage = "returned",
                                                 !.result = result]]
          /\ memory_cache' = put.memory
          /\ disk_cache' = put.disk
          /\ artifacts' = artifacts \cup Artifacts(result, now)
          /\ storage' = SaveComparison(storage, result)
    /\ pc' = [pc EXCEPT ![p] = "idle"]
    /\ call' = [call EXCEPT ![p] = NoCall]
    /\ va' = [va EXCEPT ![p] = NoAnalysis]
    /\ UNCHANGED <<state, touched, now, ticks, granted, running, issued,
                   files, hits, misses, compares, config, gemini_service, direct>>

\* A service with a vision service whose limiter has some capacity, from
\* which earlier calls have taken k tokens, over an empty cache directory.
InitPipeline ==
    /\ \E m \in Capacities, k \in 0..MaxCapacity :
           /\ k * TokenUnit <= m
           /\ state = [l \in LimIds |->
                  IF l = SharedLimiter
                  THEN [NewRateLimiter(m, DefaultRefillRate, 0) EXCEPT
                           !.tokens = m - k * TokenUnit]
                  ELSE DefaultRateLimiter(0)]
           /\ granted = k
    /\ touched = {SharedLimiter}
    /\ now = 0
    /\ ticks = 0
    /\ pc = [p \in Procs \cup Tasks |-> "idle"]
    /\ call = [p \in Procs \cup Tasks |-> NoCall]
    /\ va = [p \in Procs \cup Tasks |-> NoAnalysis]
    /\ running = 0
    /\ issued = 0
    /\ files = [path \in Paths |-> Min(path, NContents)]
    /\ config = DefaultConfig
    /\ memory_cache = {}
    /\ disk_cache = {}
    /\ hits = 0
    /\ misses = 0
    /\ storage = {}
    /\ compares = 0
    /\ job = [p \in Tasks |-> NoJob]
    /\ gemini_service = TRUE
    /\ artifacts = {}
    /\ direct = NoDirect

NextPipeline ==
    \/ \E a \in Paths : CompareWithVision(Caller, BasePath, a, DefaultPixelThreshold)
    \/ FirstAcquireResume(Caller)
    \/ \E reply \in ToolReplies : AnalyzeTier(Caller, reply)
    \/ EscalationResume(Caller)
    \/ FinishClassify(Caller)
    \/ \E d \in VisionTickSteps : Tick(d)

SpecPipeline == InitPipeline /\ [][NextPipeline]_vars

\* Calls of compare_and_classify on the service with a vision service, some
\* with enable_gemini=False, one after the other.  A tier meets a reply of
\* low confidence or an exception of the external call.
NextOrder ==
    \/ \E a \in Paths : CompareWithVision(Caller, BasePath, a, DefaultPixelThreshold)
    \/ FirstAcquireResume(Caller)
    \/ \E reply \in {r \in Replies : r.kind \in {"object", "api_error"}
                                    /\ r.overall_confidence < DefaultMinConfidence} :
           AnalyzeTier(Caller, reply)
    \/ EscalationResume(Caller)
    \/ FinishClassify(Caller)
    \/ \E d \in VisionTickSteps : Tick(d)
    \/ /\ job[Caller].stage # "vision"
       /\ \E a \in Paths :
              CompareAndClassify(Caller, BasePath, a, DefaultPixelThreshold, "False")

SpecOrder == InitPipeline /\ [][NextOrder]_vars

\* The same, some of the calls with a baseline that expects the change "4PX".
NextBaseline ==
    \/ NextOrder
    \/ \E a \in Paths :
           CompareWithVisionFor(Caller, BasePath, a, DefaultPixelThreshold,
                                <<ExpectedChange(Text4PX)>>)

SpecBaseline == InitPipeline /\ [][NextBaseline]_vars

\* Calls of compare_and_classify with the vision analysis, one after the
\* other, as the time to live of the entries passes.
NextRetry ==
    \/ \E a \in Paths : CompareWithVision(Caller, BasePath, a, DefaultPixelThreshold)
    \/ FirstAcquireResume(Caller)
    \/ \E reply \in {r \in Replies : r.kind \in {"object", "api_error"}
                                    /\ r.overall_confidence < DefaultMinConfidence} :
           AnalyzeTier(Caller, reply)
    \/ EscalationResume(Caller)
    \/ FinishClassify(Caller)
    \/ \E d \in VisionTickSteps : Tick(d)
    \/ TtlTick

SpecRetry == InitPipeline /\ [][NextRetry]_vars

\* ------------------------------------- a file that cannot be loaded --

\* Calls of compare_and_classify on the service with a vision service, while
\* another process leaves image files that cannot be decoded.
NextLoad ==
    \/ \E path \in Paths : WriteImage(path, Unreadable)
    \/ \E a \in Paths : CompareWithVision(Caller, BasePath, a, DefaultPixelThreshold)
    \/ FirstAcquireResume(Caller)
    \/ \E reply \in ToolReplies : AnalyzeTier(Caller, reply)
    \/ EscalationResume(Caller)
    \/ FinishClassify(Caller)
    \/ \E d \in VisionTickSteps : Tick(d)

SpecLoad == InitPipeline /\ [][NextLoad]_vars

\* ------------------------------------------------ claims on the limiter --

Shared == state[SharedLimiter]
Capacity == Shared.max_tokens \div TokenUnit
Waiting(p) == pc[p] = "waiting"
\* In this step task p comes back from the wait inside acquire().
ReturnsFromWait(p) == pc[p] = "waiting" /\ pc'[p] = "returned"
\* In this step a call that had not been suspended is granted a token.
GrantsNewArrival ==
    /\ granted' = granted + 1
    /\ \A r \in Procs : Waiting(r) => pc'[r] = "waiting"

\* C4: once acquire() or get_status() has run on a limiter, whether the call
\* returned at once, waited or timed out, its token count is within
\* 0 .. max_tokens.
C4_TokensInRange ==
    \A l \in touched : state[l].tokens >= 0 /\ state[l].tokens <= state[l].max_tokens

\* A timed-out acquire() has returned and the bucket holds a fraction of a token.
C4_Witness ==
    /\ SharedLimiter \in touched
    /\ Shared.tokens > 0 /\ Shared.tokens < TokenUnit
    /\ \E p \in Procs : pc[p] = "returned" /\ call[p].blocked /\ ~call[p].ret

\* The limiter starts full: every acquire() before the clock advances finds
\* max_tokens minus the tokens granted so far.
FullAtStart == DefaultTokens >= Shared.max_tokens

\* Of the calls made before any time passes exactly Capacity succeed: a call
\* is granted only while fewer than Capacity were, and suspended only once
\* Capacity were.
ImmediateCalls ==
    (FullAtStart /\ ticks = 0) =>
        /\ granted' = granted + 1 => granted < Capacity
        /\ \A p \in Procs : (~Waiting(p) /\ pc'[p] = "waiting") => granted = Capacity

\* C5 as stated: starting full, exactly C immediate calls succeed, and a
\* further call made then blocks for at least 1/refill_rate seconds.
C5_BlocksOneRefillPeriod ==
    [][/\ ImmediateCalls
       /\ \A p \in Procs :
              (FullAtStart /\ ReturnsFromWait(p) /\ call[p].start = 0) =>
                  (now - call[p].start) * Shared.refill_rate >= TokenUnit]_vars

\* C5 amended: starting full, exactly C immediate calls succeed, and a further
\* call made then blocks until 1/refill_rate seconds have elapsed or, when
\* that comes first, until its own timeout has elapsed.
C5_BlocksUntilRefillOrTimeout ==
    [][/\ ImmediateCalls
       /\ \A p \in Procs :
              (FullAtStart /\ ReturnsFromWait(p) /\ call[p].start = 0) =>
                  \/ (now - call[p].start) * Shared.refill_rate >= TokenUnit
                  \/ now - call[p].start >= call[p].timeout]_vars

\* Capacity calls were granted at time 0, one more was suspended then and is
\* still suspended a refill period later.
C5_Witness ==
    /\ FullAtStart /\ granted = Capacity
    /\ now * Shared.refill_rate >= TokenUnit
    /\ \E p \in Procs : Waiting(p) /\ call[p].start = 0

\* C6: a caller suspended in acquire(timeout) is woken by the refill: when its
\* timeout is longer than the time to refill one token and no other caller
\* uses the limiter, the call returns True.
C6_WokenByRefill ==
    [][\A p \in Procs :
          (/\ ReturnsFromWait(p)
           /\ call[p].timeout * Shared.refill_rate > TokenUnit
           /\ \A q \in Procs \ {p} : pc[q] = "idle")
          => call'[p].ret]_vars

\* C7: a suspended acquire() that comes back without an item from the queue
\* returns False, and returning False leaves the token count as it was.
C7_TimeoutReturnsFalse ==
    [][\A p \in Procs :
          ReturnsFromWait(p) =>
              LET l == call[p].lim IN
              /\ state[l].queue = <<>> => ~call'[p].ret
              /\ ~call'[p].ret => state'[l].tokens = state[l].tokens]_vars

\* An acquire() was suspended and has returned False.
C7_Witness ==
    \E p \in Procs : pc[p] = "returned" /\ call[p].blocked /\ ~call[p].ret

\* Task p is suspended in acquire() and its timeout has not elapsed.
WaitingInTime(p) == Waiting(p) /\ now < call[p].start + call[p].timeout

\* C8: waiters are served in enqueue order: while a caller is suspended in
\* acquire(), its timeout not yet elapsed, no call that arrives later is
\* granted a token.
C8_FifoAdmission ==
    [][GrantsNewArrival => \A p \in Procs : ~WaitingInTime(p)]_vars

\* ----------------------------------------------- claims on the analysis --

\* C1: in a progressive analyze_changes, once a tier's reply is a success with
\* overall_confidence >= min_confidence the call is over with that tier's
\* result: the tiers invoked and the tokens acquired are those up to that tier.
C1_StopsAtFirstConfidentTier ==
    \A p \in Tasks :
        (va[p].progressive /\ va[p].reached # 0) =>
            /\ pc[p] = "done"
            /\ DictGet(va[p].result, "success", FALSE)
            /\ DictGet(va[p].result, "resolution_used", "") = Resolutions[va[p].reached]
            /\ Len(va[p].calls) = va[p].reached
            /\ va[p].acquired = va[p].reached

\* What _refill_tokens would make of limiter l now.
RefillOf(l) == RefillTokens(state[l], now)

\* C9: no outcome of a vision call gives its token back: a step in which the
\* token count of a limiter grows is a step that ran _refill_tokens after time
\* has passed, and the count it leaves is the refilled one, less the token of
\* the acquire() that ran the refill when it was granted.
C9_OnlyRefillsAddTokens ==
    [][\A l \in LimIds :
          state'[l].tokens > state[l].tokens =>
              /\ now > state[l].last_refill
              /\ state'[l].last_refill = now
              /\ state'[l].tokens \in {RefillOf(l).tokens, RefillOf(l).tokens - TokenUnit}]_vars

\* A call has ended in failure after a vision call for which it had taken a
\* token, and the bucket is not full.
C9_Witness ==
    \E p \in Tasks :
        /\ pc[p] = "done"
        /\ va[p].acquired >= 1 /\ Len(va[p].calls) >= 1
        /\ ~DictGet(va[p].result, "success", FALSE)
        /\ state[call[p].lim].tokens < state[call[p].lim].max_tokens

\* ---------------------------------------------------- claims on the cache --

\* C2: the cache key is role-aware: for any two paths that hold distinct
\* images and any threshold, the key of (A, B) differs from the key of (B, A).
C2_KeyIsRoleAware ==
    \A b \in Paths, a \in Paths, t \in Thresholds :
        files[b] # files[a] => get_cache_key(b, a, t) # get_cache_key(a, b, t)

\* C3: the cache key depends on the contents of the two images and on the
\* threshold, not on the paths: pairs of paths with the same contents have the
\* same key, and a result that compare_and_classify serves from the cache was
\* computed from the contents the two files hold when it is served.
C3_KeyIsContentBased ==
    /\ \A b \in Paths, a \in Paths, b2 \in Paths, a2 \in Paths, t \in Thresholds :
           (files[b] = files[b2] /\ files[a] = files[a2]) =>
               get_cache_key(b, a, t) = get_cache_key(b2, a2, t)
    /\ \A p \in Tasks :
           job[p].hit => job[p].result.computed_from = job[p].seen

\* ------------------------------------------------------ claims on the tool --

\* C10: the vision calls of all visual_compare invocations of a process draw
\* from one bucket that lives as long as the process: the calls made so far
\* are at most capacity + refill_rate * t, and so are the tokens granted so
\* far together with the tokens left in the limiter.
C10_OneBucketPerProcess ==
    /\ issued * TokenUnit <= DefaultMaxTokens + DefaultRefillRate * now
    /\ ToolLimiter \in touched =>
           granted * TokenUnit + state[ToolLimiter].tokens
               <= DefaultMaxTokens + DefaultRefillRate * now

\* --------------------------------------- claims on the classification --

\* A direct call of _determine_pass_fail has returned.
PassFailDone == direct.kind = "pass_fail" /\ direct.done

\* The four rules in their order: the reason each gives, and whether it fails
\* on the arguments of the call.
Rules ==
    <<[reason |-> "Too many changed regions",
       fails |-> Len(direct.intended_changes) + Len(direct.unintended_changes)
                     > direct.cfg.max_changed_regions],
      [reason |-> "Too many changed pixels",
       fails |-> direct.pixel_result.changed_percentage
                     > direct.cfg.max_changed_percentage],
      [reason |-> "critical unintended change(s) detected",
       fails |-> \E i \in DOMAIN direct.unintended_changes :
                     direct.unintended_changes[i].severity = "critical"],
      [reason |-> "major unintended change(s) detected",
       fails |-> \E i \in DOMAIN direct.unintended_changes :
                     direct.unintended_changes[i].severity = "major"]>>

\* C11: _determine_pass_fail returns (True, None) iff none of the four rules
\* fails, and otherwise (False, reason) with the reason of the first rule, in
\* the order count, percentage, critical, major, that fails.
C11_FirstFailingRuleReported ==
    PassFailDone =>
        /\ direct.returned.passed <=> \A k \in DOMAIN Rules : ~Rules[k].fails
        /\ direct.returned.passed => direct.returned.failure_reason = "None"
        /\ ~direct.returned.passed =>
               \E k \in DOMAIN Rules :
                   /\ direct.returned.failure_reason = Rules[k].reason
                   /\ Rules[k].fails
                   /\ \A j \in 1..(k - 1) : ~Rules[j].fails

\* The percentage rule and the critical rule both fail, the count rule does
\* not, and the reason returned is that of the percentage rule.
C11_Witness ==
    /\ PassFailDone
    /\ ~Rules[1].fails /\ Rules[2].fails /\ Rules[3].fails
    /\ direct.returned.failure_reason = "Too many changed pixels"

\* A direct call of _classify_changes has returned.
ClassifyDone == direct.kind = "classify" /\ direct.done

\* The changes _classify_changes returned, the intended list first.
Classified ==
    direct.returned.intended_changes \o direct.returned.unintended_changes

\* C12: a change whose intended field the detector had set to true or false
\* comes back from _classify_changes with that value.
C12_DetectorIntendedKept ==
    ClassifyDone =>
        \A k \in DOMAIN Classified :
            LET detected == direct.gemini_changes[Classified[k].bbox] IN
            detected.intended # "None" => Classified[k].intended = detected.intended

\* text a occurs in text b when case is ignored
Occurs(a, b) ==
    \E s \in 0..Len(b) :
        /\ s + Len(a) <= Len(b)
        /\ \A k \in 1..Len(a) : LowerChar(a[k]) = LowerChar(b[s + k])

\* The i-th detected change matches some expected change of the call.
Matched(i) ==
    \E e \in DOMAIN direct.expected_changes :
        \/ Occurs(direct.gemini_changes[i].description,
                  direct.expected_changes[e].description)
        \/ Occurs(direct.expected_changes[e].description,
                  direct.gemini_changes[i].description)

\* The list holds, in detector order, exactly the detected changes whose
\* indices are in the set, each as detected but for its intended field.
HoldsInOrder(list, indices) ==
    /\ {list[k].bbox : k \in DOMAIN list} = indices
    /\ \A k \in DOMAIN list, m \in DOMAIN list : k < m => list[k].bbox < list[m].bbox
    /\ \A k \in DOMAIN list :
           [list[k] EXCEPT !.intended = "None"]
               = [direct.gemini_changes[list[k].bbox] EXCEPT !.intended = "None"]

\* C13: _classify_changes partitions the detected changes in detector order:
\* the intended list holds those of which the description contains, or is
\* contained in, some expected description when case is ignored, and the
\* unintended list holds the others.
C13_PartitionByMatch ==
    ClassifyDone =>
        /\ HoldsInOrder(direct.returned.intended_changes,
                        {i \in DOMAIN direct.gemini_changes : Matched(i)})
        /\ HoldsInOrder(direct.returned.unintended_changes,
                        {i \in DOMAIN direct.gemini_changes : ~Matched(i)})

\* A call returned a change in each list, the intended one a match in which
\* the detected description is contained in the expected one, and only so
\* when case is ignored.
C13_Witness ==
    /\ ClassifyDone
    /\ Len(direct.returned.unintended_changes) > 0
    /\ \E k \in DOMAIN direct.returned.intended_changes :
           /\ direct.returned.intended_changes[k].description = TextButton
           /\ \A e \in DOMAIN direct.expected_changes :
                  direct.expected_changes[e].description = TextButtonMovesRight

\* C14: when "button moves right" is among the expected changes, a detected
\* change "button moved to the right by 4px" comes back in the intended list.
C14_ButtonMovedRightIsIntended ==
    ClassifyDone =>
        \A i \in DOMAIN direct.gemini_changes :
            /\ direct.gemini_changes[i].description = TextButtonMovedRight
            /\ \E e \in DOMAIN direct.expected_changes :
                   direct.expected_changes[e].description = TextButtonMovesRight
            => \E k \in DOMAIN direct.returned.intended_changes :
                   /\ direct.returned.intended_changes[k].bbox = i
                   /\ direct.returned.intended_changes[k].intended = "True"

\* ------------------------------------------- claims on the comparison --

\* In this step the invocation of p comes back from the vision analysis and
\* builds its result.
Finishes(p) == job[p].stage = "vision" /\ job'[p].stage = "returned"

\* The analysis of p succeeded on a reply that reports an unintended change
\* of the given severity.
Reports(p, severity) ==
    /\ DictGet(va[p].result, "success", FALSE)
    /\ \E i \in DOMAIN va[p].reported :
           /\ va[p].reported[i].severity = severity
           /\ va[p].reported[i].intended = "False"

\* Neither the count rule nor the percentage rule fails on the result p built.
CountAndPercentagePass(result) ==
    /\ Len(result.intended_changes) + Len(result.unintended_changes)
           <= config.max_changed_regions
    /\ result.changed_percentage <= config.max_changed_percentage

\* C15: when the vision analysis reports an unintended change of severity
\* critical (or, with none critical, major) and neither the count rule nor the
\* percentage rule fails, the comparison fails with the reason of that severity.
C15_SeverityFailsComparison ==
    [][\A p \in Tasks :
          Finishes(p) /\ CountAndPercentagePass(job'[p].result) =>
              /\ Reports(p, "critical") =>
                     /\ ~job'[p].result.passed
                     /\ job'[p].result.failure_reason
                            = "critical unintended change(s) detected"
              /\ Reports(p, "major") /\ ~Reports(p, "critical") =>
                     /\ ~job'[p].result.passed
                     /\ job'[p].result.failure_reason
                            = "major unintended change(s) detected"]_vars

\* In this step p makes a call of compare_and_classify that returns in the
\* step.
Compares(p) ==
    /\ compares' = compares + 1
    /\ job'[p].stage = "returned"
    /\ job'[p].start_time = now

\* The severity reasons of _determine_pass_fail.
SeverityReasons ==
    {"critical unintended change(s) detected", "major unintended change(s) detected"}

\* C16: a call of compare_and_classify with vision disabled, or on a service
\* without a vision service, that misses the cache completes in that step: it
\* takes no token and makes no vision call, its result lists no classified
\* change and no severity reason, and it passes exactly when the percentage of
\* changed pixels is within max_changed_percentage (with no change listed the
\* count rule cannot fail).
C16_PixelOnlyWithoutVision ==
    [][\A p \in Tasks :
          /\ Compares(p)
          /\ ~job'[p].hit
          /\ ~(job'[p].use_gemini /\ gemini_service)
          => /\ UNCHANGED <<state, touched, granted, issued, va, pc, call>>
             /\ job'[p].result.intended_changes = <<>>
             /\ job'[p].result.unintended_changes = <<>>
             /\ job'[p].result.failure_reason \notin SeverityReasons
             /\ job'[p].result.passed <=>
                    job'[p].result.changed_percentage <= config.max_changed_percentage
             /\ job'[p].result.changed_pixels =
                    (IF Abs(files[job'[p].before_path] - files[job'[p].after_path])
                            * GreyStep > job'[p].result.threshold
                     THEN 1 ELSE 0)]_vars

\* A service that has a vision service was called with enable_gemini False
\* on two images that differ, missed the cache, and has returned a failure.
C16_Witness ==
    \E p \in Tasks :
        /\ gemini_service
        /\ job[p].stage = "returned"
        /\ ~job[p].hit
        /\ ~job[p].use_gemini
        /\ ~job[p].result.passed
        /\ job[p].result.failure_reason = "Too many changed pixels"

SameButTimestamp(r1, r2) == [r1 EXCEPT !.timestamp = 0] = [r2 EXCEPT !.timestamp = 0]

\* C18: when visual_compare is invoked again with the arguments of the
\* invocation before it, which computed its result less than the time to live
\* ago, the second invocation is a cache hit and its result is that of the
\* first but for the timestamp.
C18_RepeatedInvocationIdentical ==
    [][\A p \in Tasks :
          /\ Compares(p)
          /\ job[p].stage = "returned"
          /\ ~job[p].hit
          /\ job'[p].before_path = job[p].before_path
          /\ job'[p].after_path = job[p].after_path
          /\ job'[p].threshold = job[p].threshold
          /\ now - job[p].start_time < CacheTtl
          => /\ job'[p].hit
             /\ SameButTimestamp(job'[p].result, job[p].result)]_vars

\* C19: put writes through both tiers, and get returns what was put from
\* either tier: for every valid entry of the memory tier the durable tier
\* holds the key, and a get served from the memory tier and a get served from
\* the durable tier alone both return the result of that entry.
C19_GetReturnsWhatWasPut ==
    \A e \in memory_cache :
        Valid(e, now) =>
            /\ Entry(disk_cache, e.cache_key).present
            /\ CacheGet(memory_cache, disk_cache, e.cache_key, now).result = e.result
            /\ CacheGet(NoMemory, disk_cache, e.cache_key, now).result = e.result

\* In this step get is called directly.
Gets == direct = NoDirect /\ direct'.kind = "get"

\* The entries the two tiers hold for the key of the get of this step.
HeldForKey ==
    {e \in memory_cache \cup {from_dict(d) : d \in disk_cache} :
        e.cache_key = direct'.cache_key}

\* C20: get returns only the result of an entry younger than the time to
\* live; when the entries held for the key are all as old as that or older,
\* the get counts as a miss, returns nothing and leaves no entry for the key
\* in either tier.
C20_ExpiredEntryIsMiss ==
    [][Gets =>
          /\ direct'.returned # None =>
                 \E e \in HeldForKey :
                     /\ e.result = direct'.returned
                     /\ now - e.timestamp < CacheTtl
          /\ (\A e \in HeldForKey : now - e.timestamp >= CacheTtl) =>
                 /\ direct'.returned = None
                 /\ misses' = misses + 1 /\ hits' = hits
                 /\ Entry(memory_cache', direct'.cache_key) = Absent
                 /\ Entry(disk_cache', direct'.cache_key) = Absent]_vars

\* A get for the key of the last comparison, made exactly a time to live
\* after that comparison put its result, has returned nothing.
C20_Witness ==
    /\ direct.kind = "get"
    /\ direct.returned = None
    /\ job[Caller].stage = "returned"
    /\ ~job[Caller].hit
    /\ job[Caller].cache_key = direct.cache_key
    /\ now - job[Caller].start_time = CacheTtl
    /\ misses > 0

\* -------------------------------------- claims on cache maintenance --

\* In this step invalidate, clear or cleanup_expired is called.
Maintains(kind) == direct = NoDirect /\ direct'.kind = kind

\* C21: after invalidate(key) neither tier holds the key and a get for it is
\* a miss, while the entries of the other keys are as they were; after
\* clear() both tiers are empty and the two counts it returns are the numbers
\* of entries the memory tier and the durable tier held.
C21_InvalidateAndClearRemove ==
    [][/\ Maintains("invalidate") =>
              LET k == direct'.cache_key IN
              /\ Entry(memory_cache', k) = Absent
              /\ Entry(disk_cache', k) = Absent
              /\ ~CacheGet(memory_cache', disk_cache', k, now').hit
              /\ Without(memory_cache', k) = Without(memory_cache, k)
              /\ Without(disk_cache', k) = Without(disk_cache, k)
       /\ Maintains("clear") =>
              /\ memory_cache' = {}
              /\ disk_cache' = {}
              /\ \A k \in CacheKeys : ~CacheGet(memory_cache', disk_cache', k, now').hit
              /\ direct'.returned.memory_entries_cleared = Cardinality(memory_cache)
              /\ direct'.returned.disk_entries_cleared = Cardinality(disk_cache)]_vars

\* Two comparisons put the entries of two keys at the same time, and
\* invalidate was then called with one of the keys: the entry of the other
\* key is left in both tiers.
C21_Witness ==
    /\ direct.kind = "invalidate"
    /\ misses = 2
    /\ ticks = 0
    /\ Cardinality(memory_cache) = 1
    /\ Cardinality(disk_cache) = 1
    /\ Entry(disk_cache, direct.cache_key) = Absent

\* The entries the two tiers hold, as get reads them.
Held(memory, disk) == memory \cup {from_dict(d) : d \in disk}

\* C22: when cleanup_expired returns, neither tier holds an entry that get
\* treats as expired (one whose age is not less than the time to live), and
\* every entry that get treats as valid is still where it was.
C22_SweepLeavesOnlyValid ==
    [][Maintains("cleanup_expired") =>
          /\ \A e \in Held(memory_cache', disk_cache') : Valid(e, now')
          /\ \A e \in memory_cache : Valid(e, now) => e \in memory_cache'
          /\ \A d \in disk_cache : Valid(from_dict(d), now) => d \in disk_cache']_vars

\* ------------------------------------------ claims on steps that raise --

\* The steps that raise in the call task p makes in this step.
FaultsIn(p) == DictGet(job'[p], "faults", {})

\* What the get of the call of this step finds and leaves.
GotBy(p) == CacheGet(memory_cache, disk_cache, job'[p].cache_key, now)

\* C24: compare_and_classify returns a result whatever the cache does.  When
\* the cache file of the key does not load and the memory tier has no valid
\* entry, the get of the call is a miss and is counted as one; when the write
\* of the cache file raises, put leaves both tiers as the get of the call left
\* them.
C24_CacheFailuresAreNoOps ==
    [][\A p \in Tasks :
          Compares(p) =>
             /\ job'[p].stage = "returned"
             /\ job'[p].result # None
             /\ (/\ Partial(Entry(disk_cache, job'[p].cache_key))
                 /\ ~(\E e \in memory_cache :
                         e.cache_key = job'[p].cache_key /\ Valid(e, now)))
                => ~job'[p].hit /\ misses' = misses + 1 /\ hits' = hits
             /\ FaultsIn(p) \cap CacheFaults # {}
                => /\ memory_cache' = GotBy(p).memory
                   /\ disk_cache' = GotBy(p).disk]_vars

\* C30: when create_heatmap or _create_report raises, compare_and_classify
\* still returns a result, saves it to storage and puts it into the cache,
\* and the path of the artifact that was not generated is unset in the result.
C30_FailedArtifactPathUnset ==
    [][\A p \in Tasks :
          Compares(p) /\ FaultsIn(p) \cap {"heatmap", "report"} # {}
          => /\ job'[p].stage = "returned"
             /\ \E m \in storage' : m.comparison_id = job'[p].result.timestamp
             /\ FaultsIn(p) \cap CacheFaults = {}
                => Entry(memory_cache', job'[p].cache_key).result = job'[p].result
             /\ "heatmap" \in FaultsIn(p) => job'[p].result.heatmap_path = "None"
             /\ "report" \in FaultsIn(p) => job'[p].result.report_path = "None"]_vars

\* C23: the cache file is replaced atomically, so that a get never reads a
\* file that is written in part: the file that the get of a call finds for
\* its key, whether or not a put to the key is under way in another process,
\* is a complete entry, or there is no file.
C23_GetNeverReadsPartialFile ==
    [][\A p \in Tasks :
          Compares(p) => ~Partial(Entry(disk_cache, job'[p].cache_key))]_vars

\* ------------------------------------------ claims on the vision analysis --

\* The errors analyze_changes returns when acquire() has timed out.
RateLimitErrors ==
    {"Rate limit timeout", "Rate limit timeout during progressive analysis"}

\* The error of a result, "None" when it has none.
ErrorOf(result) == DictGet(result, "error", "None")

\* In this step the analyze_changes call of task p returns.
AnalysisReturns(p) == pc[p] # "done" /\ pc'[p] = "done"

\* In this step an acquire() of the analyze_changes call of task p times out.
AcquireTimesOut(p) ==
    /\ pc[p] \in {"acquiring", "escalating"}
    /\ pc'[p] # pc[p]
    /\ ~call'[p].ret

\* C25: when the acquire() before the first tier or between two tiers times
\* out, analyze_changes returns in that step a failure with a rate-limit
\* error and makes no external call; no other return carries a rate-limit
\* error, and after a rate-limit failure the call makes no external call.
C25_TimeoutFailsFast ==
    [][\A p \in Tasks :
          /\ AcquireTimesOut(p) =>
                 /\ pc'[p] = "done"
                 /\ ~DictGet(va'[p].result, "success", FALSE)
                 /\ ErrorOf(va'[p].result) \in RateLimitErrors
                 /\ issued' = issued
          /\ AnalysisReturns(p) /\ ~AcquireTimesOut(p) =>
                 ErrorOf(va'[p].result) \notin RateLimitErrors
          /\ ErrorOf(va[p].result) \in RateLimitErrors =>
                 va'[p].calls = va[p].calls /\ pc'[p] = "done"]_vars

\* A progressive call has made an external call and has then returned the
\* rate-limit failure of the acquire() between two tiers.
C25_Witness ==
    \E p \in Tasks :
        /\ pc[p] = "done"
        /\ va[p].progressive
        /\ Len(va[p].calls) > 0
        /\ ErrorOf(va[p].result) = "Rate limit timeout during progressive analysis"

\* _analyze_single_resolution has been called directly and has returned.
SingleDone == direct.kind = "single" /\ direct.done

\* The replies that do not parse into the structured form: text that is no
\* JSON, and JSON that is no object.
Unparseable == {"text", "array"}

\* C27: when the reply of a tier does not parse into the structured form,
\* parsing raises nothing and the result of the tier is a success with an
\* empty change list, the raw text of the reply and overall confidence zero.
C27_ParseFailureDegrades ==
    SingleDone /\ direct.reply.kind \in Unparseable
    => /\ ~direct.returned.raised
       /\ DictGet(direct.returned.value, "success", FALSE)
       /\ DictGet(direct.returned.value, "changes", None) = <<>>
       /\ "raw_response" \in DOMAIN direct.returned.value
       /\ DictGet(direct.returned.value, "overall_confidence", None) = 0

\* In this step the analysis that compare_and_classify awaits for task p
\* returns because the external call of its last tier failed.
ReturnsOnCallFailure(p) ==
    /\ job[p].stage = "vision"
    /\ pc[p] = "tier"
    /\ AnalysisReturns(p)
    /\ ErrorOf(va'[p].result) = "api_error"

\* C28: a failure of the external call at a tier does not abort the
\* comparison.  When the analysis returns on such a failure, its outcome is
\* the result of an earlier successful tier when there is one (here: when the
\* tier before the failed one was a success, the outcome is a success with
\* the changes of that tier); the comparison that follows returns a result,
\* and without a successful outcome that result has no classified change.
C28_CallFailureKeepsEarlierTier ==
    [][\A p \in Tasks :
          /\ ReturnsOnCallFailure(p) /\ DictGet(va[p].result, "success", FALSE) =>
                 /\ DictGet(va'[p].result, "success", FALSE)
                 /\ DictGet(va'[p].result, "changes", <<>>) = va[p].result.changes
          /\ Finishes(p) =>
                 /\ job'[p].result # None
                 /\ ~DictGet(va[p].result, "success", FALSE) =>
                        /\ job'[p].result.intended_changes = <<>>
                        /\ job'[p].result.unintended_changes = <<>>]_vars

\* C26: when the analysis that compare_and_classify awaited has returned a
\* rate-limit failure, the call does not return an ordinary result without a
\* trace of the timeout: what it returns differs from the result of the same
\* comparison made without the vision analysis.
C26_TimeoutIsSurfaced ==
    [][\A p \in Tasks :
          Finishes(p) /\ ErrorOf(va[p].result) \in RateLimitErrors
          => job'[p].result # BuildResult(job[p], [success |-> FALSE])]_vars

\* The external calls of the call of task p went to the tiers 720p, 1080p,
\* 4K, 8K in that order, from the first on, none twice and none skipped.
TiersInOrder(p) ==
    /\ Len(va[p].calls) <= Len(Resolutions)
    /\ \A i \in DOMAIN va[p].calls : va[p].calls[i] = i

\* The progressive call of task p has returned.
ProgressiveDone(p) == pc[p] = "done" /\ va[p].progressive

\* The result is annotated as below the target confidence.
BelowTarget(result) == DictGet(result, "note", "None") = "Did not reach min confidence"

\* The errors of a call that was cut short: an acquire() that timed out, an
\* image that did not load.
CutShortErrors == RateLimitErrors \cup {"load_error"}

\* A progressive call that has started returns.
ProgressiveReturns ==
    \A p \in Tasks : (pc[p] # "idle" /\ va[p].progressive) ~> (pc[p] = "done")

\* C29 as stated: every progressive call returns; its external calls go to
\* the tiers in increasing order, each once and none skipped, and are at most
\* four; and when no tier reached min_confidence the call returns after the
\* last tier with the result annotated as below target.
C29_ReturnsAfterLastTier ==
    /\ ProgressiveReturns
    /\ [](\A p \in Tasks :
             /\ va[p].progressive => TiersInOrder(p)
             /\ ProgressiveDone(p) /\ va[p].reached = 0
                => /\ Len(va[p].calls) = Len(Resolutions)
                   /\ BelowTarget(va[p].result))

\* C29, amended: every progressive call returns; its external calls go to
\* the tiers in increasing order, each once and none skipped, and are at most
\* four; when no tier reached min_confidence, the call either was cut short
\* by an acquire() that timed out or by an image that did not load and
\* returns that failure, or returns after the last tier with the result
\* annotated as below target.
C29_ReturnsAfterLastTierUnlessCutShort ==
    /\ ProgressiveReturns
    /\ [](\A p \in Tasks :
             /\ va[p].progressive => TiersInOrder(p)
             /\ ProgressiveDone(p) /\ va[p].reached = 0
                => \/ /\ ErrorOf(va[p].result) \in CutShortErrors
                      /\ ~DictGet(va[p].result, "success", FALSE)
                   \/ /\ ErrorOf(va[p].result) \notin CutShortErrors
                      /\ Len(va[p].calls) = Len(Resolutions)
                      /\ BelowTarget(va[p].result))

\* A progressive call in which no tier reached min_confidence has made its
\* four external calls and has returned a successful result annotated as
\* below target.
C29_Witness ==
    \E p \in Tasks :
        /\ ProgressiveDone(p)
        /\ va[p].reached = 0
        /\ va[p].calls = <<1, 2, 3, 4>>
        /\ DictGet(va[p].result, "success", FALSE)
        /\ BelowTarget(va[p].result)

\* ------------------------------------------- claims on the load error --

\* In this step the caller calls compare_and_classify on two files of which
\* one cannot be loaded.
CallsOnUnreadable ==
    /\ compares' = compares + 1
    /\ ~CanLoad(job'[Caller].before_path, job'[Caller].after_path)

\* C31: a call of compare_and_classify on two files of which one cannot be
\* loaded fails with the load error: it takes no token, makes no vision call,
\* saves nothing to the index, writes no artifact and puts nothing into
\* either tier of the cache.
C31_LoadErrorIsFatal ==
    [][CallsOnUnreadable
       => /\ job'[Caller].stage = "raised"
          /\ UNCHANGED <<state, granted, issued, storage, artifacts>>
          /\ memory_cache' \subseteq memory_cache
          /\ disk_cache' \subseteq disk_cache]_vars

\* ------------------------------------------ claims on identical images --

\* compare has been called on one image as before and as after.
ComparedWithItself ==
    direct.kind = "compare" /\ direct.done /\ direct.before = direct.after

\* C32 as stated: for every threshold in 1..3 and every image, what compare
\* returns for the image and itself has changed_pixels = 0,
\* changed_percentage = 0 and passed = true.
C32_IdenticalImagesPass ==
    ComparedWithItself
    => /\ direct.returned.changed_pixels = 0
       /\ direct.returned.changed_percentage = 0
       /\ direct.returned.passed

\* C32, amended: for every threshold in 1..3 and every image, what compare
\* returns for the image and itself has changed_pixels = 0 and
\* changed_percentage = 0, and _determine_pass_fail on it with no classified
\* change passes with no failure reason, under every configuration; the
\* passed field of what compare itself returns is false.
C32_IdenticalImagesNoChange ==
    ComparedWithItself
    => /\ direct.returned.changed_pixels = 0
       /\ direct.returned.changed_percentage = 0
       /\ ~direct.returned.passed
       /\ direct.verdict = [passed |-> TRUE, failure_reason |-> "None"]

\* compare has run on an image and itself at the lowest threshold, under a
\* configuration that admits no changed pixel at all, and the verdict passes.
C32_Witness ==
    /\ ComparedWithItself
    /\ direct.threshold = 1
    /\ direct.cfg.max_changed_percentage = 0
    /\ direct.verdict.passed

\* ------------------------------------------------ claims on get_status --

\* In this step a task that is not suspended calls get_status() on the shared
\* limiter.
GetsStatus ==
    /\ \E p \in Procs : pc[p] \in {"idle", "returned"}
    /\ state' = [state EXCEPT ![SharedLimiter] = Refilled(SharedLimiter)]
    /\ UNCHANGED <<now, pc, call, granted>>

\* The tasks suspended in acquire().
Suspended == {p \in Procs : Waiting(p)}

\* C33: what get_status() returns holds the token count of the limiter, a
\* queue size equal to the number of tasks suspended in acquire(), and an
\* estimated wait time that is positive when a task is suspended.
C33_StatusReportsWaiters ==
    [][GetsStatus
       => LET status == StatusOf(state'[SharedLimiter]) IN
          /\ status.tokens_available = state'[SharedLimiter].tokens
          /\ status.queue_size = Cardinality(Suspended)
          /\ Suspended # {} => status.estimated_wait_time_sec > 0]_vars

\* --------------------------------------------- claims on double spending --

\* The tokens the shared limiter had to give so far, in units: what the
\* first refill leaves of the initial tokens, and what _refill_tokens has
\* computed as tokens_to_add since (elapsed * refill_rate, summed over the
\* refills: refill_rate times the time of the last one).
TokensGiven ==
    Min(DefaultTokens, Shared.max_tokens) + Shared.refill_rate * Shared.last_refill

\* C34: whatever the order in which the tasks run their acquire() calls, the
\* calls that have returned True have not taken more tokens than the limiter
\* had at the start plus the tokens refilled so far.
C34_NoTokenSpentTwice == granted * TokenUnit <= TokensGiven

\* Every token given so far has been taken, some of them refilled ones, and a
\* task is suspended in acquire() for the next one.
C34_Witness ==
    /\ granted * TokenUnit = TokensGiven
    /\ Shared.last_refill > 0
    /\ \E p \in Procs : Waiting(p)

\* ------------------------------------ claims on the token of each call --

\* C35: in progressive and in single-resolution mode, the external calls an
\* analyze_changes call has made are at most the tokens its acquire() calls
\* were granted; a tier about to run holds a token of its own, not yet used;
\* and a call that ended on a failed acquire() has made exactly one external
\* call for each token it was granted before, and makes none after.
C35_CallsFollowAcquires ==
    \A p \in Tasks :
       /\ Len(va[p].calls) <= va[p].acquired
       /\ pc[p] = "tier" => va[p].acquired = Len(va[p].calls) + 1
       /\ ErrorOf(va[p].result) \in RateLimitErrors
              => pc[p] = "done" /\ Len(va[p].calls) = va[p].acquired

\* A progressive call has made two external calls on two tokens and has
\* ended on the timeout of its third acquire().
C35_Witness ==
    \E p \in Tasks :
       /\ va[p].progressive
       /\ Len(va[p].calls) = 2
       /\ va[p].acquired = 2
       /\ ErrorOf(va[p].result) = "Rate limit timeout during progressive analysis"

\* ----------------------------------------- claims on the order of steps --

\* In this step p makes a call of compare_and_classify that misses the cache
\* and whose pixel comparison loads both files.
Misses(p) ==
    /\ compares' = compares + 1
    /\ job'[p].start_time = now
    /\ ~job'[p].hit
    /\ job'[p].stage # "raised"

\* In this step a call of p that missed the cache returns.
Completes(p) ==
    /\ job[p].stage # "returned" \/ compares' = compares + 1
    /\ job'[p].stage = "returned"
    /\ ~job'[p].hit

\* The entry either tier holds for the call of p, Absent when it holds none.
StoredFor(tier, p) == Entry(tier, job'[p].cache_key)

\* C36: a call of compare_and_classify that misses the cache has counted the
\* miss and has the pixel comparison of the two files before anything else,
\* with or without the vision analysis; when the analysis runs, the index,
\* the artifacts and both tiers of the cache are as the cache check left them
\* until it has returned, and no entry is held under the key; and the step in
\* which the call returns has built the result from the pixel result and the
\* result of the analysis, written the artifacts, saved the result to the
\* index and put it into both tiers under the key of the request.
C36_StepsInOrder ==
    [][\A p \in {Caller} :
          /\ Misses(p) =>
                 /\ misses' = misses + 1
                 /\ job'[p].stage \in {"vision", "returned"}
                 /\ job'[p].pixel_result =
                        compare(files[job'[p].before_path], files[job'[p].after_path],
                                job'[p].threshold)
                 /\ job'[p].cache_key =
                        get_cache_key(job'[p].before_path, job'[p].after_path,
                                      EffectiveThreshold(job'[p].threshold))
                 /\ job'[p].stage = "vision" <=> job'[p].use_gemini /\ gemini_service
          /\ job'[p].stage = "vision" =>
                 /\ UNCHANGED <<storage, artifacts>>
                 /\ memory_cache' \subseteq memory_cache
                 /\ disk_cache' \subseteq disk_cache
                 /\ ~StoredFor(memory_cache', p).present
                 /\ ~StoredFor(disk_cache', p).present
                 /\ job'[p].result = None
          /\ Completes(p) =>
                 /\ job'[p].result =
                        BuildResult(job'[p], IF job[p].stage = "vision" /\ compares' = compares
                                             THEN va[p].result ELSE [success |-> FALSE])
                 /\ Artifacts(job'[p].result, now) \subseteq artifacts'
                 /\ \E saved \in storage' :
                        /\ saved.comparison_id = job'[p].result.timestamp
                        /\ saved.passed = job'[p].result.passed
                 /\ StoredFor(memory_cache', p).present
                 /\ StoredFor(memory_cache', p).result = job'[p].result
                 /\ StoredFor(disk_cache', p) = to_dict(StoredFor(memory_cache', p))]_vars

\* A call with the vision analysis and a call without it have both missed
\* the cache and returned, and the cache holds the results of both.
C36_Witness ==
    /\ compares = 2
    /\ misses = 2
    /\ job[Caller].stage = "returned"
    /\ ~job[Caller].use_gemini
    /\ issued > 0
    /\ Cardinality(disk_cache) = 2
    /\ Cardinality(storage) = 2

\* ------------------------------------------- claims on the counters --

\* C37: a call of get adds one to exactly one of the two counters of the
\* service, to the hits when it returns a result and to the misses when it
\* returns None; a call of compare_and_classify, which makes one get and on a
\* miss one put, adds one to the hits on a hit and one to the misses
\* otherwise; invalidate, clear and cleanup_expired change neither counter.
C37_EveryGetCountsOnce ==
    [][/\ Gets =>
              /\ hits' + misses' = hits + misses + 1
              /\ hits' = IF direct'.returned # None THEN hits + 1 ELSE hits
       /\ compares' = compares + 1 =>
              /\ hits' + misses' = hits + misses + 1
              /\ hits' = IF job'[Caller].hit THEN hits + 1 ELSE hits
       /\ Maintains("invalidate") \/ Maintains("clear") \/ Maintains("cleanup_expired")
              => UNCHANGED <<hits, misses>>]_vars

\* A get has found the entry of its key expired and has returned None, on a
\* service that has counted a hit and a miss before.
C37_Witness ==
    /\ direct.kind = "get"
    /\ direct.returned = None
    /\ hits = 1
    /\ misses = 2
    /\ \E m \in storage :
           get_cache_key(m.before_path, m.after_path, m.threshold) = direct.cache_key
    /\ Entry(disk_cache, direct.cache_key) = Absent

\* -------------------------------- claims on what a cache hit depends on --

\* The expected changes a call was made with.
ExpectedBy(j) == DictGet(j, "expected_changes", NoBaseline)

\* C38: a call of compare_and_classify that hits the cache returns what the
\* cache holds under the key of the two paths and the threshold, whatever
\* expected changes and whatever enable_gemini it was made with: when the
\* call before it had the same key, it returns the result of that call, also
\* when that call was made with other expected changes or another flag.
C38_HitIgnoresBaselineAndFlag ==
    [][\A p \in {Caller} :
          compares' = compares + 1 /\ job'[p].hit
          => /\ job'[p].result =
                    CacheGet(memory_cache, disk_cache,
                             get_cache_key(job'[p].before_path, job'[p].after_path,
                                           EffectiveThreshold(job'[p].threshold)),
                             now).result
             /\ job[p].stage = "returned" /\ job[p].cache_key = job'[p].cache_key
                    => job'[p].result = job[p].result]_vars

\* A call without a baseline and with vision disabled has hit the cache and
\* has returned a result that lists a change as intended: the classification
\* of an earlier call, made with a baseline and with the vision analysis.
C38_Witness ==
    /\ job[Caller].hit
    /\ job[Caller].stage = "returned"
    /\ ExpectedBy(job[Caller]) = NoBaseline
    /\ ~job[Caller].use_gemini
    /\ job[Caller].result.intended_changes # <<>>

\* ------------------------------- claims on the cache after a failed vision --

\* The result of the comparison of job j on pixel evidence alone.
PixelOnly(j) == BuildResult(j, [success |-> FALSE])

\* C39: when the vision analysis of a call has failed or timed out, the call
\* puts its result, which is the one of the pixel comparison alone, into both
\* tiers of the cache; and a call whose key has an entry younger than the
\* time to live returns the result of that entry at once: it takes no token
\* and starts no analysis.
C39_FailedVisionIsCached ==
    [][\A p \in {Caller} :
          /\ Finishes(p) /\ ~DictGet(va[p].result, "success", FALSE) =>
                 /\ job'[p].result = PixelOnly(job[p])
                 /\ Entry(memory_cache', job[p].cache_key).present
                 /\ Entry(memory_cache', job[p].cache_key).result = PixelOnly(job[p])
                 /\ Entry(disk_cache', job[p].cache_key) =
                        to_dict(Entry(memory_cache', job[p].cache_key))
          /\ compares' = compares + 1 =>
                 \A e \in memory_cache :
                    /\ e.cache_key = job'[p].cache_key
                    /\ now - e.timestamp < CacheTtl
                    => /\ job'[p].hit
                       /\ job'[p].stage = "returned"
                       /\ job'[p].result = e.result
                       /\ UNCHANGED <<state, granted, issued, va, pc, call>>]_vars

\* A call has hit the cache, hours after it was put, on an entry that holds
\* the pixel-only result of a call whose external calls all failed or whose
\* acquire() timed out after one of them.
C39_Witness ==
    /\ job[Caller].hit
    /\ job[Caller].stage = "returned"
    /\ now - Entry(memory_cache, job[Caller].cache_key).timestamp > 3600
    /\ now - Entry(memory_cache, job[Caller].cache_key).timestamp < CacheTtl
    /\ issued > 0
    /\ job[Caller].result.intended_changes = <<>>
    /\ job[Caller].result.unintended_changes = <<>>

\* ---------------------------------------------------- ConversationSession --

\* The variable `direct` holds the session of a ConversationService: its
\* max_turns, turns and is_active, and of the last call on it which method it
\* was, whether it raised, and what ask_followup returned.

\* ConversationSession.__init__: max_turns is any int the caller passes, the
\* turn list is empty and is_active is True.
NewSession(max_turns) ==
    [kind |-> "session", done |-> FALSE, max_turns |-> max_turns, turns |-> <<>>,
     is_active |-> TRUE, op |-> "none", raised |-> FALSE, returned |-> None]

MaxTurnsArgs == 0..MaxTurns

Question == <<"W", "h", "e", "r", "e">>
Answer == <<"T", "o", "p">>

\* ConversationSession.add_turn: the session after the call; raised says
\* whether the call raised ValueError.
add_turn(session, question, answer) ==
    LET turn_number == Len(session.turns) + 1 IN
    IF turn_number > session.max_turns
    THEN [session EXCEPT !.is_active = FALSE, !.op = "add_turn", !.raised = TRUE]
    ELSE [session EXCEPT
             !.turns = Append(@, [turn_number |-> turn_number,
                                  question |-> question, answer |-> answer]),
             !.is_active = IF turn_number >= session.max_turns THEN FALSE ELSE @,
             !.op = "add_turn",
             !.raised = FALSE]

\* A caller that holds the session calls add_turn on it.
AddTurn(question, answer) ==
    /\ direct.kind = "session"
    /\ direct' = add_turn(direct, question, answer)
    /\ UNCHANGED <<rlVars, visVars, files, memory_cache, disk_cache, hits, misses,
                   storage, compares, job, config, gemini_service, artifacts>>

\* What ask_followup returns once acquire() has returned True: the images
\* are loaded, and the arguments of generate_content are evaluated, of which
\* `genai.types.GenerationConfig` raises NameError, as conversation.py does
\* not import genai; `except Exception` turns either error into the result.
\* The call of generate_content and add_turn are not reached.
FollowupAnswer ==
    [success |-> FALSE,
     error |-> IF CanLoad(BasePath, BasePath) THEN "name 'genai' is not defined"
               ELSE "Cannot load comparison images"]

Asked(session, returned) ==
    [session EXCEPT !.op = "ask_followup", !.raised = FALSE, !.returned = returned]

\* ConversationService.ask_followup up to its return or to the suspension
\* in acquire(): an inactive session is answered at once.
AskFollowup(p) ==
    /\ direct.kind = "session"
    /\ pc[p] = "idle"
    /\ IF ~direct.is_active
       THEN /\ direct' = Asked(direct, [success |-> FALSE, error |-> "Session is inactive"])
            /\ UNCHANGED rlVars
       ELSE /\ state' = [state EXCEPT ![SharedLimiter] = AcquireBeginState(SharedLimiter, p)]
            /\ call' = [call EXCEPT ![p] = AcquireBeginFrame(SharedLimiter, DefaultTimeout)]
            /\ granted' = IF Granted(SharedLimiter) THEN granted + 1 ELSE granted
            /\ touched' = touched \cup {SharedLimiter}
            /\ pc' = [pc EXCEPT ![p] = IF Granted(SharedLimiter) THEN "idle" ELSE "asking"]
            /\ direct' = Asked(direct, IF Granted(SharedLimiter) THEN FollowupAnswer ELSE None)
            /\ UNCHANGED <<now, ticks>>
    /\ UNCHANGED <<visVars, files, memory_cache, disk_cache, hits, misses,
                   storage, compares, job, config, gemini_service, artifacts>>

\* The acquire() of ask_followup comes back from its wait: on a timeout the
\* call returns the rate-limit failure with get_rate_limiter_status().
FollowupResume(p) ==
    /\ direct.kind = "session"
    /\ pc[p] = "asking"
    /\ CanResume(p)
    /\ state' = [state EXCEPT ![call[p].lim] =
           IF ItemReady(p) THEN AcquireEndState(p)
           ELSE RefillTokens(AcquireEndState(p), now)]
    /\ call' = [call EXCEPT ![p] = Returned(call[p], ItemReady(p))]
    /\ granted' = IF ItemReady(p) THEN granted + 1 ELSE granted
    /\ pc' = [pc EXCEPT ![p] = "idle"]
    /\ direct' = Asked(direct, IF ItemReady(p) THEN FollowupAnswer
                               ELSE [success |-> FALSE, error |-> "Rate limit timeout"])
    /\ UNCHANGED <<touched, now, ticks, visVars, files, memory_cache, disk_cache,
                   hits, misses, storage, compares, job, config, gemini_service,
                   artifacts>>

\* A new session of a service whose limiter has some capacity, from which
\* earlier calls have taken k tokens.
InitSession ==
    /\ \E m \in Capacities, k \in 0..MaxCapacity :
           /\ k * TokenUnit <= m
           /\ state = [l \in LimIds |->
                  IF l = SharedLimiter
                  THEN [NewRateLimiter(m, DefaultRefillRate, 0) EXCEPT
                           !.tokens = m - k * TokenUnit]
                  ELSE DefaultRateLimiter(0)]
           /\ granted = k
    /\ touched = {SharedLimiter}
    /\ now = 0
    /\ ticks = 0
    /\ pc = [p \in Procs \cup Tasks |-> "idle"]
    /\ call = [p \in Procs \cup Tasks |-> NoCall]
    /\ va = [p \in Procs \cup Tasks |-> NoAnalysis]
    /\ running = 0
    /\ issued = 0
    /\ files = [path \in Paths |-> 1]
    /\ config = DefaultConfig
    /\ memory_cache = {}
    /\ disk_cache = {}
    /\ hits = 0
    /\ misses = 0
    /\ storage = {}
    /\ compares = 0
    /\ job = [p \in Tasks |-> NoJob]
    /\ gemini_service = TRUE
    /\ artifacts = {}
    /\ \E max_turns \in MaxTurnsArgs : direct = NewSession(max_turns)

NextSession ==
    \/ AddTurn(Question, Answer)
    \/ \E p \in Tasks : AskFollowup(p)
    \/ \E p \in Tasks : FollowupResume(p)
    \/ \E d \in VisionTickSteps : Tick(d)

SpecSession == InitSession /\ [][NextSession]_vars

\* --------------------------------------------------- claims on the session --

\* A call of add_turn on a session that already holds max_turns turns.
AddsBeyondLimit ==
    /\ direct'.op = "add_turn"
    /\ direct' # direct
    /\ Len(direct.turns) >= direct.max_turns

\* Task p calls ask_followup on a session that is not active.
AsksInactive(p) ==
    /\ pc[p] = "idle"
    /\ ~direct.is_active
    /\ direct'.op = "ask_followup"
    /\ direct'.returned # None

====
